---- MODULE Spec2Model ----
(***************************************************************************)
(* Model of the control plane of nxdrive.controller.Controller: the        *)
(* persistent store of ServerBinding / RootBinding / LastKnownState rows,  *)
(* the thread local session that every control operation reuses, and the   *)
(* operations bind_server, unbind_server, bind_root, unbind_root and       *)
(* update_server_roots with their helpers.                                 *)
(*                                                                         *)
(* A store is a record [sb, rb, st] of three sets of rows.  db is the      *)
(* committed store, sess is what the queries of the session return: the    *)
(* committed rows plus the uncommitted work of the session.  commit copies *)
(* sess to db; nothing in the controller ever rolls a session back.        *)
(*                                                                         *)
(* The calls explored are about one local folder, given in two spellings;  *)
(* the store starts with the rows of another folder bound earlier.         *)
(*                                                                         *)
(* The read only operations (list_pending, next_pending, children_states,  *)
(* _pair_states_recursive, _binding_path) are explored by a second         *)
(* specification, QuerySpec, over stores with a tree of pair states; query *)
(* is the last of them with its arguments and what it returned.            *)
(* config_folder is the set of files of the configuration folder, where    *)
(* stop leaves its marker.                                                 *)
(*                                                                         *)
(* A third specification, ThreadSpec, runs two calls in two threads, each  *)
(* with its own session over the shared store; threads holds, for each     *)
(* thread, its call, how far it got and the uncommitted work of its        *)
(* session.                                                                *)
(*                                                                         *)
(* A fourth specification, ClientSpec, follows the cache of remote clients *)
(* of one thread, remote_clients, through bind_server, unbind_server and   *)
(* get_remote_client.                                                      *)
(***************************************************************************)
EXTENDS Integers, Sequences, FiniteSets, TLC

VARIABLES db, sess, last, nops, query, config_folder, threads, remote_clients

vars == <<db, sess, last, nops, query, config_folder, threads,
          remote_clients>>

\* Longest sequence of control operations explored.
MaxOps == 3

\* ------------------------------------------------------------------------
\* Values
\* ------------------------------------------------------------------------
None == "None"

\* Local folders as given by callers (lists of path components) ...
FolderArgs == {<<"d">>, <<"d", ".">>}
\* ... server urls as given by callers (lists of characters) ...
UrlArgs == {<<"h">>, <<"h", "/">>, <<"g", "/">>, <<>>}
Users == {"alice", "bob"}
Passwords == {"p1"}
Tokens == {"t1"}
\* request_token() returns a token, returns None, or raises
TokenAnswers == Tokens \cup {None, "raise"}
\* revoke_token() returns, raises one of POSSIBLE_NETWORK_ERROR_TYPES,
\* raises Unauthorized, or raises something else
RevokeAnswers == {"ok", "network_error", "unauthorized", "other_error"}

Repos == {"default"}
Uids == {"r1", "r2"}
Names == {"a", "b/c"}
\* RemoteInfo(uid, name, folderish) as the server reports a document:
\* folders under either name, and one document that is no folder
RemoteInfos == [uid : Uids, name : Names, folderish : {TRUE}]
               \cup {[uid |-> "r2", name |-> "b/c", folderish |-> FALSE]}

ValueError == <<"ValueError">>

\* ------------------------------------------------------------------------
\* Helpers of other modules of the package
\* ------------------------------------------------------------------------
\* nxdrive.utils.normalized_path: canonical absolute form of a path
normalized_path(p) == SelectSeq(p, LAMBDA x : x # ".")

\* nxdrive.client.safe_filename: replace the characters a file name
\* cannot hold
safe_filename(name) == IF name = "b/c" THEN "b-c" ELSE name

\* ------------------------------------------------------------------------
\* Rows
\* ------------------------------------------------------------------------
ServerBinding(local_folder, server_url, remote_user, remote_password, remote_token) ==
    [local_folder |-> local_folder, server_url |-> server_url,
     remote_user |-> remote_user, remote_password |-> remote_password,
     remote_token |-> remote_token]

RootBinding(local_root, remote_repo, remote_root) ==
    [local_root |-> local_root,
     local_folder |-> SubSeq(local_root, 1, Len(local_root) - 1),
     remote_repo |-> remote_repo, remote_root |-> remote_root]

\* Paths inside a root (path, parent_path, remote_path) and names are
\* strings, written as lists of characters: "/a/b" is <<"/", "a", "/", "b">>.
\* NoText is the NULL of such a column.
NoText == <<None>>

RootPath == <<"/">>

\* path.rsplit('/', 1): the index of the last "/" of a path
last_slash(path) ==
    CHOOSE i \in 1..Len(path) :
        path[i] = "/" /\ \A j \in (i + 1)..Len(path) : path[j] # "/"

\* os.path.basename
basename(path) == SubSeq(path, last_slash(path) + 1, Len(path))

\* The folder of a path: "/" for a path at the top of its root
parent_of(path) ==
    IF last_slash(path) = 1 THEN RootPath
    ELSE SubSeq(path, 1, last_slash(path) - 1)

\* nxdrive.model.PAIR_STATES: the pair state derived from the states of
\* the two sides
pair_state_of(local_state, remote_state) ==
    CASE <<local_state, remote_state>> = <<"synchronized", "synchronized">>
             -> "synchronized"
      [] <<local_state, remote_state>> = <<"modified", "synchronized">>
             -> "locally_modified"
      [] <<local_state, remote_state>> = <<"synchronized", "modified">>
             -> "remotely_modified"
      [] <<local_state, remote_state>> = <<"created", "unknown">>
             -> "locally_created"
      [] <<local_state, remote_state>> = <<"unknown", "created">>
             -> "remotely_created"
      [] <<local_state, remote_state>> = <<"modified", "modified">>
             -> "conflicted"
      [] OTHER -> "unknown"

\* A pair state as its constructor leaves it: the local columns follow
\* from path, pair_state from the states of the two sides; the remote
\* position and the date of the last error are set later.
LastKnownState(local_folder, local_root, path, remote_ref, folderish, local_state, remote_state) ==
    [local_folder |-> local_folder, local_root |-> local_root,
     path |-> path,
     parent_path |-> IF path = NoText \/ path = RootPath THEN NoText
                     ELSE parent_of(path),
     local_name |-> IF path = NoText THEN NoText
                    ELSE IF path = RootPath
                    THEN <<local_root[Len(local_root)]>>
                    ELSE basename(path),
     remote_ref |-> remote_ref, remote_parent_ref |-> None,
     remote_name |-> NoText, remote_path |-> NoText,
     folderish |-> folderish,
     local_state |-> local_state, remote_state |-> remote_state,
     pair_state |-> pair_state_of(local_state, remote_state),
     last_sync_error_date |-> <<>>]

\* LastKnownState.update_remote: where the document is on the server
update_remote(state, remote_parent_ref, remote_name, remote_path) ==
    [state EXCEPT !.remote_parent_ref = remote_parent_ref,
                  !.remote_name = remote_name,
                  !.remote_path = remote_path]

EmptyStore == [sb |-> {}, rb |-> {}, st |-> {}]

\* ------------------------------------------------------------------------
\* Session primitives
\* ------------------------------------------------------------------------
\* A context is [db, sess]: the committed store and the view of the
\* session.
commit(c) == [c EXCEPT !.db = c.sess]

\* session.delete(root binding): the row of its primary key (local_root)
\* goes, and the states of the root cascade away
delete_root(s, rb) ==
    [s EXCEPT !.rb = {x \in s.rb : x.local_root # rb.local_root},
              !.st = {x \in s.st : x.local_root # rb.local_root}]

\* session.delete(server binding): its roots and their states cascade away
delete_server(s, b) ==
    LET roots == {r \in s.rb : r.local_folder = b.local_folder}
    IN [sb |-> s.sb \ {b},
        rb |-> s.rb \ roots,
        st |-> {x \in s.st :
                   x.local_root \notin {r.local_root : r \in roots}}]

\* What an operation hands back: the context it leaves, how it ended
\* ("ok" or the error it raised) and the helper calls it made.
Ret(c, result, calls) == [c |-> c, result |-> result, calls |-> calls]

\* ------------------------------------------------------------------------
\* Controller._normalize_url
\* ------------------------------------------------------------------------
\* A variant of _normalize_url that returns a proper url as it was given
_normalize_url_as_given(url) ==
    IF url = <<>> THEN ValueError ELSE url

_normalize_url(url) ==
    IF url = <<>> THEN ValueError
    ELSE IF url[Len(url)] # "/" THEN Append(url, "/")
    ELSE url

\* ------------------------------------------------------------------------
\* Controller.get_server_binding / get_root_binding (session queries)
\* ------------------------------------------------------------------------
get_server_binding(s, local_folder) ==
    {b \in s.sb : b.local_folder = normalized_path(local_folder)}

get_root_binding(s, local_root) ==
    {r \in s.rb : r.local_root = normalized_path(local_root)}

\* ------------------------------------------------------------------------
\* Controller.bind_server
\* ------------------------------------------------------------------------
\* The in-place update of an existing binding (lines 293-307)
update_credentials(b, password, token) ==
    LET b1 == IF token = None /\ b.remote_password # password
              THEN [b EXCEPT !.remote_password = password]
              ELSE b
    IN IF token # None /\ b1.remote_token # token
       THEN [b1 EXCEPT !.remote_token = token, !.remote_password = None]
       ELSE b1

\* A variant of other_account that compares the server url only
other_account_url_only(b, username, server_url) ==
    b.server_url # server_url

\* The test that raises "already bound" (lines 286-287)
other_account(b, username, server_url) ==
    b.remote_user # username \/ b.server_url # server_url

\* A variant of find_server_binding that looks the folder up under its
\* spelling with a trailing "." segment
find_server_binding_raw(s, local_folder) ==
    {b \in s.sb : b.local_folder = Append(local_folder, ".")}

\* session.query(ServerBinding).filter(local_folder == local_folder)
find_server_binding(s, local_folder) ==
    {b \in s.sb : b.local_folder = local_folder}

\* answer is what request_token() does; mkdir_ok is FALSE when the local
\* folder is missing and os.makedirs raises.
bind_server(c, folder_arg, url_arg, username, password_arg, answer, mkdir_ok) ==
    LET local_folder == normalized_path(folder_arg)
        server_url == _normalize_url(url_arg)
        token == answer
        password == IF token # None THEN None ELSE password_arg
        found == find_server_binding(c.sess, local_folder)
    IN IF server_url = ValueError THEN Ret(c, "InvalidArgument", <<>>)
       ELSE IF answer = "raise" THEN Ret(c, "RequestTokenError", <<>>)
       ELSE IF \E b \in found : other_account(b, username, server_url)
            THEN Ret(c, "AlreadyBound", <<>>)
       ELSE LET sb1 == IF found # {}
                       THEN {IF b \in found
                             THEN update_credentials(b, password, token)
                             ELSE b : b \in c.sess.sb}
                       ELSE c.sess.sb \cup
                            {ServerBinding(local_folder, server_url,
                                           username, password, token)}
                c1 == [c EXCEPT !.sess.sb = sb1]
            IN IF ~mkdir_ok
               THEN Ret(c1, "OSError", <<>>)
               ELSE Ret(commit(c1), "ok", <<>>)

\* ------------------------------------------------------------------------
\* Controller.unbind_server
\* ------------------------------------------------------------------------
\* A variant of unbind_server that returns from the handler of a swallowed
\* revocation error, before the binding is deleted
unbind_server_returns_on_swallowed(c, folder_arg, revoke) ==
    LET local_folder == normalized_path(folder_arg)
        found == get_server_binding(c.sess, local_folder)
    IN IF found = {} THEN Ret(c, "NotBound", <<>>)
       ELSE LET binding == CHOOSE b \in found : TRUE
            IN IF binding.remote_token # None /\ revoke = "other_error"
               THEN Ret(c, "RevokeError", <<>>)
               ELSE IF binding.remote_token # None /\ revoke # "ok"
               THEN Ret(c, "ok", <<>>)
               ELSE Ret(commit([c EXCEPT
                                  !.sess = delete_server(c.sess, binding)]),
                        "ok", <<>>)

unbind_server(c, folder_arg, revoke) ==
    LET local_folder == normalized_path(folder_arg)
        found == get_server_binding(c.sess, local_folder)
    IN IF found = {} THEN Ret(c, "NotBound", <<>>)
       ELSE LET binding == CHOOSE b \in found : TRUE
            IN IF binding.remote_token # None /\ revoke = "other_error"
               THEN Ret(c, "RevokeError", <<>>)
               ELSE Ret(commit([c EXCEPT
                                  !.sess = delete_server(c.sess, binding)]),
                        "ok", <<>>)

\* ------------------------------------------------------------------------
\* Controller._local_bind_root and Controller._local_unbind_root
\* ------------------------------------------------------------------------
\* The environment of one call of the local bind helper: the root folder
\* is missing and os.makedirs raises, or the initial scans of a new root
\* find a local file, or one of them raises (the remote scan runs after
\* the local one).
HelperEnvs == {"local_child", "makedirs_raises",
               "scan_local_raises", "scan_remote_raises"}

\* Synchronizer.scan_local / scan_remote: the states they add under the
\* seed state of a new root
scanned_states(state, side) ==
    IF side = "local_child"
    THEN {LastKnownState(state.local_folder, state.local_root, <<"/", "x">>, None,
                         FALSE, "created", "unknown")}
    ELSE {}

\* A variant of joined_root that forgets the folder of the server binding
joined_root_name_only(server_binding, remote_info) ==
    <<safe_filename(remote_info.name)>>

\* os.path.join(server_binding.local_folder,
\*              safe_filename(remote_info.name))
joined_root(server_binding, remote_info) ==
    Append(server_binding.local_folder, safe_filename(remote_info.name))

\* A variant of bound_elsewhere that looks at the repository only
bound_elsewhere_repository_only(binding, repository, remote_info) ==
    binding.remote_repo # repository

\* The root binding found at local_root is of another repository or
\* another remote root
bound_elsewhere(binding, repository, remote_info) ==
    \/ binding.remote_repo # repository
    \/ binding.remote_root # remote_info.uid

\* The pair state added for a new root (lines 468-481)
seed_state(server_binding, local_root, remote_info) ==
    update_remote(
        LastKnownState(server_binding.local_folder, local_root, RootPath,
                       remote_info.uid, remote_info.folderish,
                       "synchronized",
                       IF remote_info.folderish THEN "synchronized"
                                                ELSE "modified"),
        None, <<remote_info.name>>, NoText)

_local_bind_root(c, server_binding, remote_info, repository, env) ==
    LET local_root == joined_root(server_binding, remote_info)
        existing == {r \in c.sess.rb : r.local_root = local_root}
        state == seed_state(server_binding, local_root, remote_info)
        c1 == [c EXCEPT
                 !.sess.rb = @ \cup {RootBinding(local_root, repository,
                                                 remote_info.uid)},
                 !.sess.st = @ \cup {state}]
        c2 == [c1 EXCEPT !.sess.st = @ \cup scanned_states(state, env)]
    IN IF env = "makedirs_raises"
       THEN Ret(c, "OSError", <<>>)
       ELSE IF existing # {}
       THEN IF \E r \in existing : bound_elsewhere(r, repository, remote_info)
            THEN Ret(c, "AlreadyBound", <<>>)
            ELSE Ret(c, "ok", <<>>)
       ELSE IF env = "scan_local_raises" THEN Ret(c1, "ScanError", <<>>)
       ELSE IF env = "scan_remote_raises" THEN Ret(c2, "ScanError", <<>>)
       ELSE Ret(commit(c2), "ok", <<>>)

\* What session.delete does with a binding whose row the session no
\* longer holds (the caller kept the object of a root deleted earlier):
\* it raises, or it deletes by primary key whatever row is there. The
\* code does not say which; both are outcomes of the same call.
StaleAnswers == {"raises", "deletes_by_key"}

_local_unbind_root(c, binding, stale) ==
    IF binding \notin c.sess.rb /\ stale = "raises"
    THEN Ret(c, "StaleBinding", <<>>)
    ELSE Ret(commit([c EXCEPT !.sess = delete_root(c.sess, binding)]),
             "ok", <<>>)

\* ------------------------------------------------------------------------
\* Controller.update_server_roots
\* ------------------------------------------------------------------------
HelperCall(helper, uid) == [helper |-> helper, uid |-> uid]

\* for ref in to_remove: self._local_unbind_root(local_roots_by_id[ref], ..)
\* The first error ends the operation.
RECURSIVE remove_roots(_, _, _, _)
remove_roots(r, local_roots_by_id, refs, stale) ==
    IF refs = {} \/ r.result # "ok" THEN r
    ELSE LET ref == CHOOSE x \in refs : TRUE
             u == _local_unbind_root(r.c, local_roots_by_id[ref], stale)
         IN remove_roots(
                Ret(u.c, u.result,
                    Append(r.calls, HelperCall("_local_unbind_root", ref))),
                local_roots_by_id, refs \ {ref}, stale)

\* for ref in to_add: ... self._local_bind_root(server_binding,
\* remote_roots_by_id[ref], rc, session), in the order the set is walked;
\* envs[i] is the environment of the i-th call. The first error ends the
\* operation.
RECURSIVE add_roots(_, _, _, _, _, _, _)
add_roots(r, server_binding, remote_roots_by_id, repository, order, envs, i) ==
    IF i > Len(order) \/ r.result # "ok" THEN r
    ELSE LET ref == order[i]
             b == _local_bind_root(r.c, server_binding,
                                   remote_roots_by_id[ref], repository,
                                   envs[i])
         IN add_roots(
                Ret(b.c, b.result,
                    Append(r.calls, HelperCall("_local_bind_root", ref))),
                server_binding, remote_roots_by_id, repository, order, envs,
                i + 1)

\* A variant of to_remove that forgets to subtract the remote uids
to_remove_all(local_root_ids, remote_root_ids) ==
    local_root_ids

\* to_remove = local_root_ids - remote_root_ids
to_remove(local_root_ids, remote_root_ids) ==
    local_root_ids \ remote_root_ids

\* to_add = remote_root_ids - local_root_ids
to_add(local_root_ids, remote_root_ids) ==
    remote_root_ids \ local_root_ids

\* local_roots_by_id and remote_roots_by_id are the two dicts the code
\* builds (of several roots with one uid a dict keeps one); order is the
\* order in which a set of remote uids is walked, envs the environment of
\* the calls of the local bind helper and stale what session.delete does
\* with a binding whose row is gone.
\* The first loop of update_server_roots (lines 525-526): what it leaves
\* when the second loop starts
unbind_removed(c, local_roots_by_id, remote_roots_by_id, stale) ==
    remove_roots(Ret(c, "ok", <<>>), local_roots_by_id,
                 to_remove(DOMAIN local_roots_by_id,
                           DOMAIN remote_roots_by_id),
                 stale)

\* A variant of update_server_roots that binds the added roots before it
\* unbinds the removed ones
update_server_roots_binds_first(c, server_binding, local_roots_by_id, remote_roots_by_id, repository, order, envs, stale) ==
    LET walk == SelectSeq(order,
                          LAMBDA ref : ref \in to_add(
                                                  DOMAIN local_roots_by_id,
                                                  DOMAIN remote_roots_by_id))
        added == add_roots(Ret(c, "ok", <<>>), server_binding,
                           remote_roots_by_id, repository, walk, envs, 1)
    IN remove_roots(added, local_roots_by_id,
                    to_remove(DOMAIN local_roots_by_id,
                              DOMAIN remote_roots_by_id),
                    stale)

update_server_roots(c, server_binding, local_roots_by_id, remote_roots_by_id, repository, order, envs, stale) ==
    LET local_root_ids == DOMAIN local_roots_by_id
        remote_root_ids == DOMAIN remote_roots_by_id
        removed == unbind_removed(c, local_roots_by_id, remote_roots_by_id,
                                  stale)
        walk == SelectSeq(order,
                          LAMBDA ref : ref \in to_add(local_root_ids,
                                                      remote_root_ids))
    IN add_roots(removed, server_binding, remote_roots_by_id, repository,
                 walk, envs, 1)

\* ------------------------------------------------------------------------
\* Synchronizer.update_roots: align the tracked roots of a server binding
\* and repository with the roots the server advertises
\* ------------------------------------------------------------------------
\* server_binding.roots restricted to the repository
tracked_roots(s, server_binding, repository) ==
    {r \in s.rb : /\ r.local_folder = server_binding.local_folder
                  /\ r.remote_repo = repository}

\* dict((r.remote_root, r) for r in local_roots): one root per uid
local_roots_by_id_choices(local_roots) ==
    LET ids == {r.remote_root : r \in local_roots}
    IN {d \in [ids -> local_roots] : \A u \in ids : d[u].remote_root = u}

\* dict((r.uid, r) for r in remote_roots), for every list of roots a
\* server may advertise
RemoteRootsById ==
    UNION {{d \in [ids -> RemoteInfos] : \A u \in ids : d[u].uid = u} :
           ids \in SUBSET Uids}

\* The orders in which a set can be walked
Orders(S) ==
    {o \in [1..Cardinality(S) -> S] :
        \A i, j \in 1..Cardinality(S) : o[i] = o[j] => i = j}

update_roots(c, server_binding, repository, align) ==
    update_server_roots(c, server_binding, align.local_roots_by_id,
                        align.remote_roots_by_id, repository, align.order,
                        align.envs, align.stale)

\* ------------------------------------------------------------------------
\* Controller.bind_root and Controller.unbind_root
\* ------------------------------------------------------------------------
\* What the server answers to bind_root: get_info('/') finds the document,
\* raises NotFound or raises another error; check_writable;
\* register_as_root.
LookupAnswers == {"found", "NotFound", "raise"}

\* A variant of remote_root_error that asks for the write permission first
remote_root_error_writable_first(remote_info, lookup, writable) ==
    IF lookup = "raise" THEN "RemoteError"
    ELSE IF ~writable THEN "NotWritable"
    ELSE IF lookup = "NotFound" \/ ~remote_info.folderish
    THEN "NoSuchRemoteRoot"
    ELSE "ok"

\* The checks of the remote root: get_info('/') (NotFound gives no info,
\* any other error goes up), folderish, then check_writable
remote_root_error(remote_info, lookup, writable) ==
    IF lookup = "raise" THEN "RemoteError"
    ELSE IF lookup = "NotFound" \/ ~remote_info.folderish
    THEN "NoSuchRemoteRoot"
    ELSE IF ~writable THEN "NotWritable"
    ELSE "ok"

bind_root(c, folder_arg, remote_info, repository, lookup, writable, registered, align, env) ==
    LET local_folder == normalized_path(folder_arg)
        found == get_server_binding(c.sess, local_folder)
        error == remote_root_error(remote_info, lookup, writable)
    IN IF found = {} THEN Ret(c, "NotBound", <<>>)
       ELSE IF error # "ok" THEN Ret(c, error, <<>>)
       ELSE LET server_binding == CHOOSE b \in found : TRUE
                asked == <<HelperCall("register_as_root", remote_info.uid)>>
            IN IF registered
               THEN LET r == update_roots(c, server_binding, repository,
                                          align)
                    IN Ret(r.c, r.result, asked \o r.calls)
               ELSE LET r == _local_bind_root(c, server_binding,
                                              remote_info, repository, env)
                    IN Ret(r.c, r.result,
                           Append(asked,
                                  HelperCall("_local_bind_root",
                                             remote_info.uid)))

AddonAnswers == {"installed", "missing", "raise"}

unbind_root(c, root_arg, addon, align) ==
    LET local_root == normalized_path(root_arg)
        found == get_root_binding(c.sess, local_root)
    IN IF found = {} THEN Ret(c, "NotBound", <<>>)
       ELSE LET binding == CHOOSE r \in found : TRUE
                server_binding ==
                    CHOOSE b \in c.sess.sb :
                        b.local_folder = binding.local_folder
            IN IF addon = "raise" THEN Ret(c, "RemoteError", <<>>)
               ELSE IF addon = "installed"
               THEN LET r == update_roots(c, server_binding,
                                          binding.remote_repo, align)
                    IN Ret(r.c, r.result,
                           <<HelperCall("unregister_as_root",
                                        binding.remote_root)>> \o r.calls)
               ELSE LET r == _local_unbind_root(c, binding, "raises")
                    IN Ret(r.c, r.result,
                           <<HelperCall("_local_unbind_root",
                                        binding.remote_root)>>)

\* ------------------------------------------------------------------------
\* Order of text columns in queries (ORDER BY ... ASC of the sqlite store)
\* ------------------------------------------------------------------------
\* The code of a character
Ord(ch) ==
    CASE ch = "-" -> 45
      [] ch = "/" -> 47
      [] ch = "a" -> 97
      [] ch = "b" -> 98
      [] ch = "w" -> 119
      [] ch = "x" -> 120
      [] ch = "y" -> 121
      [] ch = "z" -> 122

\* s < t for two strings: at the first place where they differ s holds the
\* smaller character, or s is a proper prefix of t
text_lt(s, t) ==
    \E i \in 1..(Len(t)) :
        /\ \A j \in 1..(i - 1) : j <= Len(s) /\ s[j] = t[j]
        /\ \/ i = Len(s) + 1
           \/ i <= Len(s) /\ Ord(s[i]) < Ord(t[i])

\* x < y for two values of a text column: NULL sorts before every string
column_lt(x, y) ==
    IF x = NoText THEN y # NoText
    ELSE IF y = NoText THEN FALSE
    ELSE text_lt(x, y)

\* ORDER BY first ASC, second ASC of two rows, each given as the pair of
\* its two columns
order_lt(k1, k2) ==
    \/ column_lt(k1[1], k2[1])
    \/ k1[1] = k2[1] /\ column_lt(k1[2], k2[2])

\* Every list a query can return for the rows S ordered by key (a function
\* from rows to pairs of columns): rows with equal keys come in either
\* order
RECURSIVE ordered(_, _)
ordered(S, key) ==
    IF S = {} THEN {<<>>}
    ELSE UNION {{<<m>> \o rest : rest \in ordered(S \ {m}, key)} :
                m \in {x \in S : \A y \in S : ~order_lt(key[y], key[x])}}

\* ------------------------------------------------------------------------
\* Controller.list_pending and Controller.next_pending
\* ------------------------------------------------------------------------
\* An optional number (a date, a limit, a duration in seconds) is <<>> for
\* None and <<n>> for n; a local_folder of None is the empty path.
NoNumber == <<>>

NoFolder == <<>>

\* A variant of predicates that forgets the restriction to local_folder
predicates_any_folder(x, local_folder, ignore_in_error, now) ==
    /\ x.pair_state # "synchronized"
    /\ (ignore_in_error # NoNumber /\ ignore_in_error[1] > 0)
       => \/ x.last_sync_error_date = NoNumber
          \/ x.last_sync_error_date[1] < now - ignore_in_error[1]

\* A variant of predicates that also lets through the pair states whose
\* last error is exactly ignore_in_error seconds old
predicates_cooldown_inclusive(x, local_folder, ignore_in_error, now) ==
    /\ x.pair_state # "synchronized"
    /\ local_folder # NoFolder => x.local_folder = local_folder
    /\ (ignore_in_error # NoNumber /\ ignore_in_error[1] > 0)
       => \/ x.last_sync_error_date = NoNumber
          \/ x.last_sync_error_date[1] <= now - ignore_in_error[1]

\* The predicates of the query of list_pending, for the pair state x
predicates(x, local_folder, ignore_in_error, now) ==
    /\ x.pair_state # "synchronized"
    /\ local_folder # NoFolder => x.local_folder = local_folder
    /\ (ignore_in_error # NoNumber /\ ignore_in_error[1] > 0)
       => \/ x.last_sync_error_date = NoNumber
          \/ x.last_sync_error_date[1] < now - ignore_in_error[1]

\* The lists list_pending can return from the store s at time now
list_pending(s, limit, local_folder, ignore_in_error, now) ==
    LET selected == {x \in s.st : predicates(x, local_folder,
                                             ignore_in_error, now)}
    IN {IF limit = NoNumber \/ limit[1] >= Len(o) THEN o
        ELSE SubSeq(o, 1, limit[1]) :
        o \in ordered(selected,
                      [x \in selected |-> <<x.path, x.remote_path>>])}

\* A variant of next_pending that asks for the pending pair states of
\* every folder
next_pending_any_folder(s, local_folder, now) ==
    {IF Len(pending) > 0 THEN <<pending[1]>> ELSE <<>> :
     pending \in list_pending(s, <<1>>, NoFolder, NoNumber, now)}

\* What next_pending can return: <<>> for None, <<state>> for a pair state
next_pending(s, local_folder, now) ==
    {IF Len(pending) > 0 THEN <<pending[1]>> ELSE <<>> :
     pending \in list_pending(s, <<1>>, local_folder, NoNumber, now)}

\* ------------------------------------------------------------------------
\* Controller._binding_path
\* ------------------------------------------------------------------------
\* folder_path.startswith(rb.local_root + os.path.sep)
starts_with_root(folder_path, local_root) ==
    /\ Len(local_root) < Len(folder_path)
    /\ SubSeq(folder_path, 1, Len(local_root)) = local_root

\* folder_path[len(binding.local_root):] with "/" for the separator
RECURSIVE relative_path(_, _)
relative_path(folder_path, n) ==
    IF n >= Len(folder_path) THEN <<>>
    ELSE <<"/", folder_path[n + 1]>> \o relative_path(folder_path, n + 1)

\* The root binding of an absolute path and the path inside the root, or
\* the error raised
_binding_path(s, folder_arg) ==
    LET folder_path == normalized_path(folder_arg)
        exact == get_root_binding(s, folder_path)
        root_bindings == {rb \in s.rb :
                             starts_with_root(folder_path, rb.local_root)}
    IN IF exact # {}
       THEN [result |-> "ok", binding |-> CHOOSE rb \in exact : TRUE,
             path |-> RootPath]
       ELSE IF root_bindings = {}
       THEN [result |-> "NotFound"]
       ELSE IF Cardinality(root_bindings) > 1
       THEN [result |-> "Ambiguous"]
       ELSE LET binding == CHOOSE rb \in root_bindings : TRUE
            IN [result |-> "ok", binding |-> binding,
                path |-> relative_path(folder_path,
                                       Len(binding.local_root))]

\* ------------------------------------------------------------------------
\* Controller._pair_states_recursive and Controller.children_states
\* ------------------------------------------------------------------------
\* One collected item: a pair state and the state reported for it
Collected(doc_pair, pair_state) == [s |-> doc_pair, pair_state |-> pair_state]

\* The filter f on the children of doc_pair (a NULL column matches
\* nothing)
is_child_of(x, doc_pair) ==
    IF doc_pair.path # NoText /\ doc_pair.remote_ref # None
    THEN \/ x.parent_path = doc_pair.path
         \/ x.remote_parent_ref = doc_pair.remote_ref
    ELSE IF doc_pair.path # NoText
    THEN x.parent_path = doc_pair.path
    ELSE x.remote_parent_ref = doc_pair.remote_ref

\* The pair states _pair_states_recursive(doc_pair) calls itself for
nested_calls(s, local_root, doc_pair) ==
    IF ~doc_pair.folderish THEN {}
    ELSE IF doc_pair.path = NoText /\ doc_pair.remote_ref = None THEN {}
    ELSE {x \in s.st : x.local_root = local_root /\ is_child_of(x, doc_pair)}

\* No chain of nested calls that starts with doc_pair is longer than n
RECURSIVE nests_within(_, _, _, _)
nests_within(s, local_root, doc_pair, n) ==
    /\ n > 0
    /\ \A x \in nested_calls(s, local_root, doc_pair) :
           nests_within(s, local_root, x, n - 1)

\* The call for doc_pair never returns: what a call does depends on its
\* pair state only, so a chain of nested calls longer than the number of
\* pair states repeats one and goes on (until the interpreter gives up
\* with "maximum recursion depth exceeded")
recurses_forever(s, local_root, doc_pair) ==
    ~nests_within(s, local_root, doc_pair, Cardinality(s.st) + 1)

\* The lists _pair_states_recursive can return for doc_pair (several when
\* children have equal names). A pair state with neither path nor
\* remote_ref raises ValueError, and a recursion without end returns
\* nothing: no list is returned.
RECURSIVE _pair_states_recursive(_, _, _)
RECURSIVE sub_results(_, _, _, _)
_pair_states_recursive(s, local_root, doc_pair) ==
    IF ~doc_pair.folderish
    THEN {<<Collected(doc_pair, doc_pair.pair_state)>>}
    ELSE IF doc_pair.path = NoText /\ doc_pair.remote_ref = None THEN {}
    ELSE IF recurses_forever(s, local_root, doc_pair) THEN {}
    ELSE LET children == {x \in s.st : /\ x.local_root = local_root
                                       /\ is_child_of(x, doc_pair)}
             children_states_ ==
                 ordered(children,
                         [x \in children |-> <<x.local_name, x.remote_name>>])
             \* for _, sub_pair_state in results: ...; break
             pair_state(results) ==
                 IF Len(results) > 0
                    /\ results[1].pair_state # "synchronized"
                 THEN "children_modified"
                 ELSE doc_pair.pair_state
         IN {<<Collected(doc_pair, pair_state(results))>> \o results :
             results \in UNION {sub_results(s, local_root, o, 1) :
                                o \in children_states_}}

\* results.extend(sub_results) for the children from the i-th on
sub_results(s, local_root, children_states_, i) ==
    IF i > Len(children_states_) THEN {<<>>}
    ELSE {head \o tail :
          head \in _pair_states_recursive(s, local_root, children_states_[i]),
          tail \in sub_results(s, local_root, children_states_, i + 1)}

\* The (name, state) entries of a list of collected items whose
\* parent_path is path
child_entries(states, path) ==
    LET kept == SelectSeq(states, LAMBDA e : e.s.parent_path = path)
    IN [i \in 1..Len(kept) |-> <<basename(kept[i].s.path),
                                 kept[i].pair_state>>]

\* The lists children_states can return. Where the code raises (an
\* ambiguous path, several pair states for one path) no list is returned.
RECURSIVE children_states(_, _)
children_states(s, folder_arg) ==
    LET server_binding == get_server_binding(s, folder_arg)
        roots == {rb \in s.rb :
                     \E b \in server_binding :
                         rb.local_folder = b.local_folder}
        root_state(rb) ==
            {IF \E i \in 1..Len(children) :
                    children[i][2] # "synchronized"
             THEN "children_modified" ELSE "synchronized" :
             children \in children_states(s, rb.local_root)}
        RECURSIVE root_states(_, _)
        root_states(o, i) ==
            IF i > Len(o) THEN {<<>>}
            ELSE {<<<<o[i].local_root[Len(o[i].local_root)], st>>>> \o tail :
                  st \in root_state(o[i]), tail \in root_states(o, i + 1)}
        found == _binding_path(s, folder_arg)
        folder_state == {x \in s.st : /\ x.local_root = found.binding.local_root
                                      /\ x.path = found.path}
    IN IF server_binding # {}
       THEN UNION {root_states(o, 1) : o \in Orders(roots)}
       ELSE IF found.result = "NotFound" THEN {<<>>}
       ELSE IF found.result # "ok" THEN {}
       ELSE IF folder_state = {} THEN {<<>>}
       ELSE IF Cardinality(folder_state) > 1 THEN {}
       ELSE {child_entries(states, found.path) :
             states \in _pair_states_recursive(
                            s, found.binding.local_root,
                            CHOOSE x \in folder_state : TRUE)}

\* ------------------------------------------------------------------------
\* Controller.get_state / get_state_for_local_path
\* ------------------------------------------------------------------------
\* What a lookup of one pair state hands back: the state found (None is
\* <<>>) or the error raised
Found(states) == [result |-> "ok", state |-> states]

Raised(error) == [result |-> error, state |-> <<>>]

\* state.root_binding and rb.server_binding: the rows the foreign keys
\* local_root and local_folder point to
root_binding_of(s, state) == {rb \in s.rb : rb.local_root = state.local_root}

server_binding_of(s, rb) == {b \in s.sb : b.local_folder = rb.local_folder}

\* The loop of get_state over the states with the remote_ref: the first
\* one under the server and repository is returned, and the query gives
\* them in no fixed order. A state without its rows above raises when the
\* loop comes to it.
first_under(s, server_url, remote_repo, remote_ref) ==
    LET states == {x \in s.st : x.remote_ref = remote_ref}
        under == {x \in states :
                     \E rb \in root_binding_of(s, x) :
                         /\ rb.remote_repo = remote_repo
                         /\ \E b \in server_binding_of(s, rb) :
                                b.server_url = server_url}
        orphans == {x \in states :
                       \/ root_binding_of(s, x) = {}
                       \/ \E rb \in root_binding_of(s, x) :
                              server_binding_of(s, rb) = {}}
    IN {Found(<<x>>) : x \in under}
       \cup (IF under = {} /\ orphans = {} THEN {Found(<<>>)} ELSE {})
       \cup (IF orphans # {} THEN {Raised("AttributeError")} ELSE {})

get_state_raw_url(s, url_arg, remote_repo, remote_ref) ==
    IF url_arg = <<>> THEN {Raised("ValueError")}
    ELSE first_under(s, url_arg, remote_repo, remote_ref)

\* The answers get_state can give
get_state(s, url_arg, remote_repo, remote_ref) ==
    LET server_url == _normalize_url(url_arg)
    IN IF server_url = ValueError THEN {Raised("ValueError")}
       ELSE first_under(s, server_url, remote_repo, remote_ref)

get_state_for_local_path_any_root(s, local_path) ==
    LET found == _binding_path(s, local_path)
    IN IF found.result # "ok" THEN Raised(found.result)
       ELSE LET rows == {x \in s.st : x.path = found.path}
            IN IF rows = {} THEN Raised("NoResultFound")
               ELSE IF Cardinality(rows) > 1
               THEN Raised("MultipleResultsFound")
               ELSE Found(<<CHOOSE x \in rows : TRUE>>)

\* query(LastKnownState).filter_by(local_root=..., path=...).one()
get_state_for_local_path(s, local_path) ==
    LET found == _binding_path(s, local_path)
    IN IF found.result # "ok" THEN Raised(found.result)
       ELSE LET rows == {x \in s.st :
                            /\ x.local_root = found.binding.local_root
                            /\ x.path = found.path}
            IN IF rows = {} THEN Raised("NoResultFound")
               ELSE IF Cardinality(rows) > 1
               THEN Raised("MultipleResultsFound")
               ELSE Found(<<CHOOSE x \in rows : TRUE>>)

\* ------------------------------------------------------------------------
\* Controller.stop
\* ------------------------------------------------------------------------
\* The file of the store in the configuration folder (init_db)
DbFile == <<"nxdrive.db">>

\* What synchronizer.check_running(process_name="sync") returns: the pid
\* of the running synchronization process, or None
Pids == {NoNumber, <<7>>, <<8>>}

\* os.path.join(self.config_folder, "stop_%d" % pid)
stop_file(pid) == <<"stop_", pid>>

\* A variant of stop that leaves a marker whether or not a process runs
stop_unconditionally(files, pid) ==
    files \cup {stop_file(IF pid = NoNumber THEN 0 ELSE pid[1])}

\* The files of the configuration folder after stop()
stop(files, pid) ==
    IF pid # NoNumber THEN files \cup {stop_file(pid[1])}
    ELSE files

\* ------------------------------------------------------------------------
\* Controller.get_remote_client / invalidate_client_cache
\* ------------------------------------------------------------------------
\* self.device_id
DeviceId == "device"

\* The cache of a thread that asked for no client yet (_get_client_cache)
NoClients == <<>>

\* nuxeo_client_factory(server_url, remote_user, device_id, token=...,
\* password=..., base_folder=..., repository=...): the client keeps what it
\* was built with
RemoteClient(sb, base_folder, repository) ==
    [server_url |-> sb.server_url, user_id |-> sb.remote_user,
     device_id |-> DeviceId, token |-> sb.remote_token,
     password |-> sb.remote_password, base_folder |-> base_folder,
     repository |-> repository]

cache_key(sb, base_folder, repository) ==
    <<sb.server_url, sb.remote_user, DeviceId, base_folder, repository>>

\* The cache after get_remote_client and the client returned
get_remote_client(cache, server_binding, base_folder, repository) ==
    LET key == cache_key(server_binding, base_folder, repository)
    IN IF key \in DOMAIN cache
       THEN [cache |-> cache, client |-> cache[key]]
       ELSE LET remote_client == RemoteClient(server_binding, base_folder,
                                              repository)
            IN [cache |-> [k \in DOMAIN cache \cup {key} |->
                              IF k = key THEN remote_client ELSE cache[k]],
                client |-> remote_client]

\* The cache without the clients of the server
invalidate_client_cache(cache, server_url) ==
    [k \in {key \in DOMAIN cache : cache[key].server_url # server_url} |->
        cache[k]]

\* ------------------------------------------------------------------------
\* State machine
\* ------------------------------------------------------------------------
Ctx == [db |-> db, sess |-> sess]

NoSnapshot == [db |-> EmptyStore, sess |-> EmptyStore]

NoArgs == [none |-> TRUE]

NoQuery == [op |-> "none"]

\* No call runs in another thread
NoThreads == <<>>

NoCall == [op |-> "none", result |-> "none", target |-> <<>>,
           existed |-> FALSE, changed |-> FALSE, args |-> NoArgs,
           start |-> NoSnapshot, follows_bind |-> FALSE,
           before |-> NoSnapshot]

\* The last call: its name, how it ended, the (normalized) folder or root
\* it was about, whether that folder or root was bound when it started,
\* whether it changed the store, what is remembered of its arguments and
\* of the answers of its environment (args), the context it started from
\* if it bound its folder or root anew (start), and, if it directly
\* follows such a call for the same folder or root, the context that call
\* started from (before).
Call(op, r, target, existed, args) ==
    LET fresh == op \in {"bind_server", "bind_root"} /\ r.result = "ok"
                 /\ ~existed
        follows == /\ <<last.op, op>> \in {<<"bind_server", "unbind_server">>,
                                          <<"bind_root", "unbind_root">>}
                   /\ last.result = "ok"
                   /\ ~last.existed
                   /\ last.target = target
    IN [op |-> op, result |-> r.result, target |-> target,
        existed |-> existed,
        changed |-> r.c.db # db \/ r.c.sess # sess,
        args |-> args,
        start |-> IF fresh THEN Ctx ELSE NoSnapshot,
        follows_bind |-> follows,
        before |-> IF follows THEN last.start ELSE NoSnapshot]

Apply(op, r, target, existed, args) ==
    LET res == r
    IN /\ nops < MaxOps
       /\ nops' = nops + 1
       /\ db' = res.c.db
       /\ sess' = res.c.sess
       /\ last' = Call(op, res, target, existed, args)
       /\ UNCHANGED <<query, config_folder, threads, remote_clients>>

\* The store a controller is constructed over is not empty: another
\* folder was bound earlier, with one root and its seed state. No call of
\* the model is about that folder: its rows show what a call does to the
\* rows of a folder it is not about.
OtherFolder == <<"e">>

OtherRows ==
    LET b == ServerBinding(OtherFolder, <<"h", "/">>, "bob", None, "t1")
        root == Append(OtherFolder, "a")
    IN [sb |-> {b},
        rb |-> {RootBinding(root, "default", "r1")},
        st |-> {update_remote(
                    LastKnownState(OtherFolder, root, RootPath, "r1", TRUE,
                                   "synchronized", "synchronized"),
                    None, <<"a">>, NoText)}]

\* The server bindings the calls of the model are about
OwnBindings(s) == {b \in s.sb : b.local_folder # OtherFolder}

Init ==
    /\ db = OtherRows
    /\ sess = OtherRows
    /\ nops = 0
    /\ last = NoCall
    /\ query = NoQuery
    /\ config_folder = {DbFile}
    /\ threads = NoThreads
    /\ remote_clients = NoClients

\* The environments of n calls of the local bind helper in a row: what
\* follows the first failing call never runs and is left at its default.
EnvSeqs(n) ==
    {e \in [1..n -> HelperEnvs] :
        \A i, j \in 1..n : i < j /\ e[i] # "local_child"
                              => e[j] = "local_child"}

\* Every way the alignment of (server_binding, repository) can run from
\* the store s: the two dicts, the order in which to_add is walked and
\* the environment of each call of the local bind helper. The local roots
\* are rows of s, so no binding is stale and the first of StaleAnswers
\* stands for both.
Aligns(s, server_binding, repository) ==
    UNION {UNION {UNION {
        {[local_roots_by_id |-> l, remote_roots_by_id |-> r, order |-> o,
          envs |-> e, stale |-> "raises"] : e \in EnvSeqs(Len(o))} :
        o \in Orders(to_add(DOMAIN l, DOMAIN r))} :
        r \in RemoteRootsById} :
        l \in local_roots_by_id_choices(
                  tracked_roots(s, server_binding, repository))}

NoAlign == [local_roots_by_id |-> <<>>, remote_roots_by_id |-> <<>>,
            order |-> <<>>, envs |-> <<>>, stale |-> "raises"]

ValidUrlArgs == {u \in UrlArgs : _normalize_url(u) # ValueError}

\* What is remembered of a bind_server call: whether the folder was bound
\* to another (server_url, user) than the one given, whether the url was
\* accepted and the token request answered, and, of a call that
\* succeeded, the password given and what request_token() answered.
BindServerArgs(r, f, u, user, p, answer) ==
    [other_account |->
         \E b \in get_server_binding(sess, f) :
             b.server_url # _normalize_url(u) \/ b.remote_user # user,
     valid_url |-> _normalize_url(u) # ValueError,
     answered |-> answer # "raise",
     password |-> IF r.result = "ok" /\ answer = None THEN p ELSE None,
     answer |-> IF r.result = "ok" THEN answer ELSE None]

DoBindServer(f, u, user, p, answer, mk) ==
    LET r == bind_server(Ctx, f, u, user, p, answer, mk)
    IN Apply("bind_server", r, normalized_path(f),
             get_server_binding(sess, f) # {},
             BindServerArgs(r, f, u, user, p, answer))

BindServer ==
    \E f \in FolderArgs :
        \/ \E u \in UrlArgs \ ValidUrlArgs :
               DoBindServer(f, u, "alice", "p1", None, TRUE)
        \/ \E u \in ValidUrlArgs, user \in Users :
               DoBindServer(f, u, user, "p1", "raise", TRUE)
        \/ \E u \in ValidUrlArgs, user \in Users, p \in Passwords,
              answer \in Tokens \cup {None}, mk \in BOOLEAN :
               /\ answer # None => p = "p1"
               /\ DoBindServer(f, u, user, p, answer, mk)

\* What is remembered of an unbind_server call: whether the revocation of
\* the token of the binding failed with an error the call swallows, or
\* with another error, and whether the binding had roots.
UnbindServerArgs(f, revoke) ==
    [swallowed |-> /\ revoke \in {"network_error", "unauthorized"}
                   /\ \E b \in get_server_binding(sess, f) :
                          b.remote_token # None,
     unexpected |-> /\ revoke = "other_error"
                    /\ \E b \in get_server_binding(sess, f) :
                           b.remote_token # None,
     had_roots |-> \E b \in get_server_binding(sess, f) :
                       \E r \in sess.rb : r.local_folder = b.local_folder]

UnbindServer ==
    \E f \in FolderArgs, revoke \in RevokeAnswers :
        Apply("unbind_server", unbind_server(Ctx, f, revoke),
              normalized_path(f), get_server_binding(sess, f) # {},
              UnbindServerArgs(f, revoke))

\* What is remembered of an alignment: the uids the server advertised,
\* the uids the local helpers were called for, the helpers in the order
\* of their calls, and the roots to remove that were still in the session
\* or in the committed store when the first loop had ended.
AlignArgs(r, al) ==
    [remotes |-> DOMAIN al.remote_roots_by_id,
     touched |-> {r.calls[i].uid : i \in 1..Len(r.calls)},
     helpers |-> [i \in 1..Len(r.calls) |-> r.calls[i].helper],
     left_bound |->
         LET removed == unbind_removed(Ctx, al.local_roots_by_id,
                                       al.remote_roots_by_id, al.stale)
         IN {ref \in to_remove(DOMAIN al.local_roots_by_id,
                               DOMAIN al.remote_roots_by_id) :
                \/ removed.result # "ok"
                \/ al.local_roots_by_id[ref]
                     \in removed.c.db.rb \cup removed.c.sess.rb}]

UpdateServerRoots ==
    \E b \in OwnBindings(sess), repo \in Repos :
        \E al \in Aligns(sess, b, repo) :
            LET r == update_server_roots(Ctx, b, al.local_roots_by_id,
                                         al.remote_roots_by_id, repo,
                                         al.order, al.envs, al.stale)
            IN Apply("update_server_roots", r, b.local_folder, TRUE,
                     [repo |-> repo] @@ AlignArgs(r, al))

\* The local root bind_root binds for a remote document
root_of(folder_arg, remote_info) ==
    Append(normalized_path(folder_arg), safe_filename(remote_info.name))

\* What a bind_root call was given: whether its folder was bound, what the
\* server answered about the remote root, whether the server was asked to
\* register the root, and the helpers called
BindRootArgs(r, f, info, lookup, writable) ==
    [bound |-> get_server_binding(sess, normalized_path(f)) # {},
     remote |-> IF lookup # "found" THEN lookup
                ELSE IF info.folderish THEN "folder" ELSE "no_folder",
     writable |-> writable,
     asked |-> \E i \in 1..Len(r.calls) :
                   r.calls[i].helper = "register_as_root",
     helpers |-> {r.calls[i].helper : i \in 1..Len(r.calls)}]

DoBindRoot(f, info, repo, lookup, writable, registered, al, env) ==
    LET r == bind_root(Ctx, f, info, repo, lookup, writable, registered, al,
                       env)
    IN Apply("bind_root", r, root_of(f, info),
             get_root_binding(sess, root_of(f, info)) # {},
             BindRootArgs(r, f, info, lookup, writable))

\* bind_root where the server does not register the root (or the call
\* fails before asking)
BindRootLocal ==
    \E f \in FolderArgs, info \in RemoteInfos, repo \in Repos :
        \/ DoBindRoot(f, info, repo, "raise", TRUE, FALSE, NoAlign,
                      "local_child")
        \/ \E writable \in BOOLEAN :
               DoBindRoot(f, info, repo, "NotFound", writable, FALSE,
                          NoAlign, "local_child")
        \/ \E writable \in BOOLEAN, env \in HelperEnvs :
               /\ ~writable => env = "local_child"
               /\ DoBindRoot(f, info, repo, "found", writable, FALSE,
                             NoAlign, env)

\* bind_root where the server registers the root and the roots are
\* realigned with a list that holds the new root
BindRootRegistered ==
    \E f \in FolderArgs, info \in RemoteInfos, repo \in Repos :
        \E b \in get_server_binding(sess, f) :
            /\ info.folderish
            /\ \E al \in Aligns(sess, b, repo) :
                /\ info.uid \in DOMAIN al.remote_roots_by_id
                /\ al.remote_roots_by_id[info.uid] = info
                /\ DoBindRoot(f, info, repo, "found", TRUE, TRUE, al,
                              "local_child")

RootArgs == {root_of(f, [name |-> n]) : f \in FolderArgs, n \in Names}

UnbindRootLocal ==
    \E root \in RootArgs, addon \in {"missing", "raise"} :
        Apply("unbind_root", unbind_root(Ctx, root, addon, NoAlign),
              normalized_path(root), get_root_binding(sess, root) # {},
              NoArgs)

\* unbind_root where the server unregisters the root and the roots are
\* realigned
UnbindRootRegistered ==
    \E root \in RootArgs :
        \E rb \in get_root_binding(sess, root) :
            \E b \in {x \in sess.sb : x.local_folder = rb.local_folder} :
                \E al \in Aligns(sess, b, rb.remote_repo) :
                    Apply("unbind_root",
                          unbind_root(Ctx, root, "installed", al),
                          normalized_path(root), TRUE, NoArgs)

Next ==
    \/ BindServer
    \/ UnbindServer
    \/ UpdateServerRoots
    \/ BindRootLocal
    \/ BindRootRegistered
    \/ UnbindRootLocal
    \/ UnbindRootRegistered

Spec == Init /\ [][Next]_vars

\* ------------------------------------------------------------------------
\* State machine of the read only operations
\* ------------------------------------------------------------------------
\* Latest date of a synchronization error, and longest limit, explored
MaxDate == 1

MaxLimit == 2

\* datetime.now(): every error happened before
Now == MaxDate + 1

Dates == {NoNumber} \cup {<<t>> : t \in 0..MaxDate}
Limits == {NoNumber} \cup {<<n>> : n \in 0..MaxLimit}
Windows == {NoNumber} \cup {<<w>> : w \in (-1)..Now}

\* The root the pair states of the explored stores are under
QueryFolder == <<"d">>

QueryRoot == <<"d", "a">>

\* The pair state of a document of the root: where it is on both sides,
\* whether it waits for synchronization, when it last failed
Document(path, remote_ref, remote_parent_ref, remote_name, remote_path, folderish, pending, date) ==
    [update_remote(
         LastKnownState(QueryFolder, QueryRoot, path, remote_ref, folderish,
                        IF path = NoText THEN "unknown"
                        ELSE IF pending THEN "modified" ELSE "synchronized",
                        IF path = NoText THEN "created" ELSE "synchronized"),
         remote_parent_ref, remote_name, remote_path)
     EXCEPT !.last_sync_error_date = date]

\* The seed state of a root, as _local_bind_root leaves it or after the
\* remote folder changed
SeedStates(local_folder, local_root, name) ==
    {update_remote(
         LastKnownState(local_folder, local_root, RootPath, "r1", TRUE,
                        "synchronized", remote_state),
         None, <<name>>, NoText) :
     remote_state \in {"synchronized", "modified"}}

\* The documents under the root: a folder /a, in it a folder /a/b, a file
\* /a/x that was moved into b on the server, and a file y that exists on
\* the server only; beside the folder a file /z. A folder is pending or
\* not; a file also has the date of its last error.
FolderA == {Document(<<"/", "a">>, "fa", "r1", <<"a">>,
                     <<"/", "w", "/", "a">>, TRUE, p, NoNumber) :
            p \in BOOLEAN}

FolderB == {Document(<<"/", "a", "/", "b">>, "fb", "fa", <<"b">>,
                     <<"/", "w", "/", "a", "/", "b">>, TRUE, p, NoNumber) :
            p \in BOOLEAN}

FileX == {Document(<<"/", "a", "/", "x">>, "fx", "fb", <<"x">>,
                   <<"/", "w", "/", "a", "/", "b", "/", "x">>, FALSE,
                   d[1], d[2]) :
          d \in {<<FALSE, NoNumber>>} \cup ({TRUE} \X Dates)}

FileY == {Document(NoText, "fy", "fa", <<"y">>,
                   <<"/", "w", "/", "a", "/", "y">>, FALSE, TRUE, NoNumber)}

FileZ == {Document(<<"/", "z">>, "fz", "r1", <<"z">>,
                   <<"/", "w", "/", "z">>, FALSE, d[1], d[2]) :
          d \in {<<FALSE, NoNumber>>} \cup ({TRUE} \X Dates)}

\* At most one pair state of a set of variants
Optional(S) == {{}} \cup {{x} : x \in S}

\* The sets of pair states under the root: nothing is in a folder that is
\* not there
QueryTrees ==
    {seed \cup z \cup under_a :
     seed \in {{x} : x \in SeedStates(QueryFolder, QueryRoot, "a")},
     z \in Optional(FileZ),
     under_a \in {{}} \cup {{a} \cup b \cup x \cup y :
                            a \in FolderA, b \in Optional(FolderB),
                            x \in Optional(FileX), y \in Optional(FileY)}}

\* The folder /a was moved into its sibling /b on the local side while /b
\* was moved into /a on the server: each side is a tree, and the pair
\* states hold the local place of the one and the remote place of the
\* other
MovedA == Document(<<"/", "b", "/", "a">>, "fa", "r1", <<"a">>,
                   <<"/", "w", "/", "a">>, TRUE, FALSE, NoNumber)

MovedB == Document(<<"/", "b">>, "fb", "fa", <<"b">>,
                   <<"/", "w", "/", "a", "/", "b">>, TRUE, FALSE, NoNumber)

MovedTrees ==
    {{seed, MovedA, MovedB} : seed \in SeedStates(QueryFolder, QueryRoot, "a")}

\* The folder and the root beside them are bound to the server server_url
\* and the repository remote_repo
QueryStoresBeside(server_url, remote_repo, trees) ==
    {[sb |-> {ServerBinding(OtherFolder, server_url, "bob", None, "t1"),
              ServerBinding(QueryFolder, <<"h", "/">>, "alice", None, "t1")},
      rb |-> {RootBinding(Append(OtherFolder, "a"), remote_repo, "r1"),
              RootBinding(QueryRoot, "default", "r1")},
      st |-> other \cup tree] :
     other \in {{x} : x \in SeedStates(OtherFolder, Append(OtherFolder, "a"),
                                       "a")},
     tree \in trees}

\* The trees with nothing in a folder
FlatTrees ==
    {tree \in QueryTrees :
        \A x \in tree : x.parent_path \in {NoText, RootPath}}

\* The stores asked: both folders are bound to the same server and
\* repository, where the same document is a root of both; in the stores
\* of flat trees the other folder is also bound to another server, or its
\* root to another repository; and the stores of the moved folders
QueryStores ==
    QueryStoresBeside(<<"h", "/">>, "default", QueryTrees \cup MovedTrees)
    \cup QueryStoresBeside(<<"g", "/">>, "default", FlatTrees)
    \cup QueryStoresBeside(<<"h", "/">>, "other", FlatTrees)

QueryInit ==
    /\ sess \in QueryStores
    /\ db = sess
    /\ nops = 0
    /\ last = NoCall
    /\ query = NoQuery
    /\ config_folder = {DbFile}
    /\ threads = NoThreads
    /\ remote_clients = NoClients

\* A query leaves the store alone; the model asks one per behaviour
Ask(op, args, result) ==
    /\ query' = [op |-> op, args |-> args, result |-> result]
    /\ UNCHANGED <<db, sess, last, nops, config_folder, threads,
                   remote_clients>>

QueryFolders == {NoFolder, QueryFolder, OtherFolder, <<"d", ".">>}

ListPending ==
    /\ query = NoQuery
    /\ \E limit \in Limits, local_folder \in QueryFolders,
          ignore_in_error \in Windows :
        \E result \in list_pending(sess, limit, local_folder,
                                   ignore_in_error, Now) :
            Ask("list_pending",
                [limit |-> limit, local_folder |-> local_folder,
                 ignore_in_error |-> ignore_in_error, now |-> Now],
                result)

NextPending ==
    /\ query = NoQuery
    /\ \E local_folder \in QueryFolders :
        \E result \in next_pending(sess, local_folder, Now) :
            Ask("next_pending", [local_folder |-> local_folder], result)

\* The absolute paths asked about: the bound folder in two spellings, the
\* root, folders and files in it, and paths outside every root
QueryPaths ==
    {QueryFolder, <<"d", ".">>, QueryRoot, <<"d", "a", "a">>,
     <<"d", "a", "a", "b">>, <<"d", "a", "b">>, <<"d", "a", "z">>,
     <<"d", "a", "q">>,
     <<"d", "q">>, <<"q">>}

ChildrenStates ==
    /\ query = NoQuery
    /\ \E folder_path \in QueryPaths :
        \E result \in children_states(sess, folder_path) :
            Ask("children_states", [folder_path |-> folder_path], result)

PairStatesRecursive ==
    /\ query = NoQuery
    /\ \E doc_pair \in {x \in sess.st : x.local_root = QueryRoot} :
        \E result \in _pair_states_recursive(sess, QueryRoot, doc_pair) :
            Ask("_pair_states_recursive", [doc_pair |-> doc_pair], result)

BindingPath ==
    /\ query = NoQuery
    /\ \E folder_path \in QueryPaths :
        Ask("_binding_path", [folder_path |-> folder_path],
            _binding_path(sess, folder_path))

\* The urls, repositories and remote references asked about
QueryUrls == {<<"h">>, <<"h", "/">>, <<"g">>, <<"g", "/">>, <<>>}

QueryRepos == {"default", "other"}

QueryRefs == {"r1", "fz", "q"}

GetState ==
    /\ query = NoQuery
    /\ \E server_url \in QueryUrls, remote_repo \in QueryRepos,
          remote_ref \in QueryRefs :
        \E result \in get_state(sess, server_url, remote_repo, remote_ref) :
            Ask("get_state",
                [server_url |-> server_url, remote_repo |-> remote_repo,
                 remote_ref |-> remote_ref],
                result)

GetStateForLocalPath ==
    /\ query = NoQuery
    /\ \E local_path \in QueryPaths \cup {Append(OtherFolder, "a")} :
        Ask("get_state_for_local_path", [local_path |-> local_path],
            get_state_for_local_path(sess, local_path))

\* stop() leaves the store and the session alone
Stop ==
    /\ query = NoQuery
    /\ \E pid \in Pids :
        /\ config_folder' = stop(config_folder, pid)
        /\ query' = [op |-> "stop", args |-> [pid |-> pid], result |-> None]
        /\ UNCHANGED <<db, sess, last, nops, threads, remote_clients>>

QueryNext ==
    \/ ListPending
    \/ NextPending
    \/ ChildrenStates
    \/ PairStatesRecursive
    \/ BindingPath
    \/ GetState
    \/ GetStateForLocalPath
    \/ Stop

QuerySpec == QueryInit /\ [][QueryNext]_vars

\* ------------------------------------------------------------------------
\* State machine of two threads
\* ------------------------------------------------------------------------
\* The threads that use the controller: each has its own session
\* (get_session returns the session of the calling thread)
Threads == {"main", "worker"}

\* The folder the threads bind and the server binding they bind roots of
ThreadFolder == <<"d">>

ThreadBinding == CHOOSE b \in OtherRows.sb : TRUE

\* The calls a thread makes: bind_server(d, 'h', user, 'p1') with what
\* request_token() answers, or the local bind helper for a remote document
\* under the server binding of the other folder
ThreadCalls ==
    {[op |-> "bind_server", user |-> user, answer |-> answer,
      remote_info |-> CHOOSE info \in RemoteInfos : TRUE] :
     user \in Users, answer \in Tokens \cup {None}}
    \cup {[op |-> "_local_bind_root", user |-> "bob", answer |-> None,
           remote_info |-> info] : info \in RemoteInfos}

\* A thread before its call: nothing is pending in its session
Started(call) ==
    [call |-> call, pc |-> "start", inserts |-> EmptyStore, updates |-> {},
     result |-> "none"]

\* What the queries of the session of a thread return: the committed rows
\* and the rows the session added
session_view(store, thread) ==
    [sb |-> store.sb \cup thread.inserts.sb,
     rb |-> store.rb \cup thread.inserts.rb,
     st |-> store.st \cup thread.inserts.st]

\* An inserted row has the primary key of a committed row
key_conflict(store, inserts) ==
    \/ \E b \in inserts.sb, x \in store.sb : x.local_folder = b.local_folder
    \/ \E r \in inserts.rb, x \in store.rb : x.local_root = r.local_root

\* The committed store once the session wrote its work: the inserted rows
\* are added, an updated server binding replaces the row of its key. The
\* store refuses the whole transaction when an inserted row has the key of
\* a committed one.
flushed(store, inserts, updates) ==
    [sb |-> {x \in store.sb :
                \A b \in updates : b.local_folder # x.local_folder}
            \cup updates \cup inserts.sb,
     rb |-> store.rb \cup inserts.rb,
     st |-> store.st \cup inserts.st]

\* A variant of commit_result in which the error of the store is lost
commit_result_swallowed(refused) == "ok"

\* How a call ends at session.commit(): nothing catches what the store
\* raises
commit_result(refused) == IF refused THEN "IntegrityError" ELSE "ok"

ThreadInit ==
    /\ db = OtherRows
    /\ sess = OtherRows
    /\ nops = 0
    /\ last = NoCall
    /\ query = NoQuery
    /\ config_folder = {DbFile}
    /\ remote_clients = NoClients
    /\ threads \in [Threads -> {Started(call) : call \in ThreadCalls}]

\* bind_server up to session.add: the url is normalized, the token
\* requested, the binding of the folder looked up in the session and
\* updated in place or added
ThreadBindServer(t) ==
    LET thread == threads[t]
        call == thread.call
        server_url == _normalize_url(<<"h">>)
        token == call.answer
        password == IF token # None THEN None ELSE "p1"
        found == find_server_binding(session_view(db, thread), ThreadFolder)
    IN /\ thread.pc = "start"
       /\ call.op = "bind_server"
       /\ threads' =
            [threads EXCEPT ![t] =
               IF \E b \in found : other_account(b, call.user, server_url)
               THEN [thread EXCEPT !.pc = "done", !.result = "AlreadyBound"]
               ELSE IF found # {}
               THEN [thread EXCEPT
                       !.pc = "added",
                       !.updates = {update_credentials(b, password, token) :
                                    b \in found}]
               ELSE [thread EXCEPT
                       !.pc = "added",
                       !.inserts.sb = {ServerBinding(ThreadFolder, server_url,
                                                     call.user, password,
                                                     token)}]]
       /\ UNCHANGED <<db, sess, last, nops, query, config_folder,
                      remote_clients>>

\* _local_bind_root up to the scans: the root binding of local_root is
\* looked up in the session; a new root is added with its seed state and
\* what the scans find
ThreadLocalBindRoot(t) ==
    LET thread == threads[t]
        call == thread.call
        local_root == joined_root(ThreadBinding, call.remote_info)
        existing == get_root_binding(session_view(db, thread), local_root)
        state == seed_state(ThreadBinding, local_root, call.remote_info)
    IN /\ thread.pc = "start"
       /\ call.op = "_local_bind_root"
       /\ threads' =
            [threads EXCEPT ![t] =
               IF \E r \in existing :
                      bound_elsewhere(r, "default", call.remote_info)
               THEN [thread EXCEPT !.pc = "done", !.result = "AlreadyBound"]
               ELSE IF existing # {}
               THEN [thread EXCEPT !.pc = "done", !.result = "ok"]
               ELSE [thread EXCEPT
                       !.pc = "added",
                       !.inserts.rb = {RootBinding(local_root, "default",
                                                   call.remote_info.uid)},
                       !.inserts.st = {state} \cup
                                      scanned_states(state, "local_child")]]
       /\ UNCHANGED <<db, sess, last, nops, query, config_folder,
                      remote_clients>>

\* session.commit() at the end of either call
ThreadCommit(t) ==
    LET thread == threads[t]
        refused == key_conflict(db, thread.inserts)
    IN /\ thread.pc = "added"
       /\ db' = IF refused THEN db
                ELSE flushed(db, thread.inserts, thread.updates)
       /\ threads' = [threads EXCEPT ![t] =
                        [thread EXCEPT !.pc = "done",
                                       !.result = commit_result(refused)]]
       /\ UNCHANGED <<sess, last, nops, query, config_folder,
                      remote_clients>>

ThreadNext ==
    \E t \in Threads :
        \/ ThreadBindServer(t)
        \/ ThreadLocalBindRoot(t)
        \/ ThreadCommit(t)

ThreadSpec == ThreadInit /\ [][ThreadNext]_vars

\* ------------------------------------------------------------------------
\* State machine of the cache of remote clients
\* ------------------------------------------------------------------------
\* The credentials the folders are bound and bound again with
ClientPasswords == {"p1", "p2"}

ClientTokens == {"t1", "t2"}

\* The folder bound, in two spellings
ClientFolders == {OtherFolder, Append(OtherFolder, ".")}

\* The base folders clients are asked for: none, and a remote root
BaseFolders == {None, "r1"}

ClientInit ==
    /\ db = OtherRows
    /\ sess = OtherRows
    /\ nops = 0
    /\ last = NoCall
    /\ query = NoQuery
    /\ config_folder = {DbFile}
    /\ threads = NoThreads
    /\ remote_clients = NoClients

\* bind_server does nothing with the cache
ClientBindServer ==
    \E f \in ClientFolders, user \in Users, p \in ClientPasswords,
       answer \in ClientTokens \cup {None} :
        DoBindServer(f, <<"h">>, user, p, answer, TRUE)

\* unbind_server drops the clients of the server of the binding on its
\* way to deleting the binding
ClientUnbindServer ==
    \E f \in ClientFolders :
        LET r == unbind_server(Ctx, f, "ok")
            found == get_server_binding(sess, normalized_path(f))
        IN /\ nops < MaxOps
           /\ nops' = nops + 1
           /\ db' = r.c.db
           /\ sess' = r.c.sess
           /\ last' = Call("unbind_server", r, normalized_path(f),
                           found # {}, NoArgs)
           /\ remote_clients' =
                IF found = {} THEN remote_clients
                ELSE invalidate_client_cache(
                         remote_clients,
                         (CHOOSE b \in found : TRUE).server_url)
           /\ UNCHANGED <<query, config_folder, threads>>

\* get_remote_client for a stored server binding, as bind_root,
\* unbind_root and update_server_roots call it
GetRemoteClient ==
    \E sb \in sess.sb, base_folder \in BaseFolders :
        LET r == get_remote_client(remote_clients, sb, base_folder,
                                   "default")
        IN /\ nops < MaxOps
           /\ nops' = nops + 1
           /\ remote_clients' = r.cache
           /\ query' = [op |-> "get_remote_client",
                        args |-> [server_binding |-> sb,
                                  base_folder |-> base_folder],
                        result |-> r.client]
           /\ UNCHANGED <<db, sess, last, config_folder, threads>>

ClientNext ==
    \/ ClientBindServer
    \/ ClientUnbindServer
    \/ GetRemoteClient

ClientSpec == ClientInit /\ [][ClientNext]_vars

\* ------------------------------------------------------------------------
\* Credentials of a server binding
\* ------------------------------------------------------------------------
\* C1: after any sequence of bind_server and unbind_server calls, every
\* ServerBinding in the store carries exactly one of remote_password and
\* remote_token (the other is null).
ExactlyOneCredential ==
    \A b \in db.sb : (b.remote_password = None) # (b.remote_token = None)

\* C2: after a bind_server call that succeeded and for which the server
\* issued a token, the binding of the folder has remote_token equal to that
\* token and a null remote_password, whatever its credentials were before.
TokenReplacesPassword ==
    (last.op = "bind_server" /\ last.result = "ok"
                             /\ last.args.answer # None)
    => /\ get_server_binding(db, last.target) # {}
       /\ \A b \in get_server_binding(db, last.target) :
              /\ b.remote_token = last.args.answer
              /\ b.remote_password = None

\* ------------------------------------------------------------------------
\* bind_server on a bound folder
\* ------------------------------------------------------------------------
\* C3: a bind_server call on a folder that is bound with another server url
\* or another user fails and leaves the store as it was; the error is
\* AlreadyBound once the url is accepted and the token request answered
\* (both happen before the binding is looked up).
AlreadyBoundLeavesStore ==
    [][(last'.op = "bind_server" /\ last'.args.other_account)
       => /\ last'.result # "ok"
          /\ (last'.args.valid_url /\ last'.args.answered)
                 => last'.result = "AlreadyBound"
          /\ db' = db
          /\ sess' = sess]_vars

AlreadyBoundRaised ==
    /\ last.op = "bind_server"
    /\ last.result = "AlreadyBound"
    /\ last.args.other_account
    /\ get_server_binding(db, last.target) # {}

\* C4: after a successful bind_server call, the same call again (the folder
\* and the url in any spelling that normalizes to the same value, the same
\* user, the same password, the server answering as before) succeeds if
\* the folder can be created, changes nothing, and the folder has exactly
\* one binding.
BindServerIdempotent ==
    (last.op = "bind_server" /\ last.result = "ok")
    => /\ Cardinality(get_server_binding(db, last.target)) = 1
       /\ Cardinality(get_server_binding(sess, last.target)) = 1
       /\ \A b \in get_server_binding(sess, last.target) :
          \A f \in FolderArgs, u \in ValidUrlArgs, p \in Passwords,
             mk \in BOOLEAN :
              (/\ normalized_path(f) = last.target
               /\ _normalize_url(u) = b.server_url
               /\ (last.args.answer = None => p = last.args.password))
              => LET r == bind_server(Ctx, f, u, b.remote_user, p,
                                      last.args.answer, mk)
                 IN /\ r.c = Ctx
                    /\ (mk => r.result = "ok")

BindServerRepeated ==
    /\ last.op = "bind_server"
    /\ last.result = "ok"
    /\ last.existed
    /\ ~last.changed

\* ------------------------------------------------------------------------
\* Failed operations and the committed store
\* ------------------------------------------------------------------------
\* C5: an operation that ends with an error commits nothing, and what an
\* operation commits is what it added itself: no row left in the session
\* by an earlier failed operation is committed by a later one.
NoCommitOfFailedOperation ==
    [][/\ last'.result # "ok" => db' = db
       /\ (db'.sb \ db.sb) \subseteq (sess'.sb \ sess.sb)
       /\ (db'.rb \ db.rb) \subseteq (sess'.rb \ sess.rb)
       /\ (db'.st \ db.st) \subseteq (sess'.st \ sess.st)]_vars

\* C6: an update_server_roots call that ends with an error leaves the
\* committed store as it was before the call: the roots it had started
\* to remove and their pair states are still there.
AlignmentAtomic ==
    [][(last'.op = "update_server_roots" /\ last'.result # "ok")
       => db' = db]_vars

\* ------------------------------------------------------------------------
\* Alignment of the roots
\* ------------------------------------------------------------------------
\* The uids of the roots tracked for (server_binding, repository)
tracked_uids(s, server_binding, repository) ==
    {r.remote_root : r \in tracked_roots(s, server_binding, repository)}

\* The pair states under a root
states_of(s, local_root) == {x \in s.st : x.local_root = local_root}

\* C7: whenever update_server_roots returns, the uids of the roots stored
\* for the server binding and repository are the uids the server
\* advertised, and no pair state of a root that was tracked and is not
\* advertised remains (pair states found under its folder afterwards are
\* those of an advertised root bound to the same folder by the call).
AlignmentReachesRemotes ==
    \A b \in OwnBindings(sess), repo \in Repos :
        \A al \in Aligns(sess, b, repo) :
            LET r == update_roots(Ctx, b, repo, al)
                R == DOMAIN al.remote_roots_by_id
                gone == {x \in tracked_roots(sess, b, repo) :
                            x.remote_root \notin R}
            IN r.result = "ok"
               => /\ tracked_uids(r.c.sess, b, repo) = R
                  /\ \A x \in gone :
                         \/ states_of(r.c.sess, x.local_root) = {}
                         \/ \E y \in r.c.sess.rb \ {x} :
                                y.local_root = x.local_root

\* The ways a run of the alignment can be run a second time with the same
\* inputs: the same server binding, repository, local and remote roots,
\* whatever session.delete does with a binding that is gone
SecondRuns(al) == {[al EXCEPT !.stale = x] : x \in StaleAnswers}

AlignmentLeavesIntersection ==
    [][last'.op = "update_server_roots"
       => LET R == last'.args.remotes
              L == {r \in sess.rb : /\ r.local_folder = last'.target
                                    /\ r.remote_repo = last'.args.repo}
          IN /\ \A r \in L :
                   r.remote_root \in R
                   => /\ r \in sess'.rb
                      /\ states_of(sess', r.local_root)
                             = states_of(sess, r.local_root)
                      /\ (r \in db.rb
                          => /\ r \in db'.rb
                             /\ states_of(db, r.local_root)
                                    \subseteq states_of(db', r.local_root))
                      /\ r.remote_root \notin last'.args.touched
             /\ {r.remote_root : r \in L} = R
                => /\ db' = db
                   /\ sess' = sess
                   /\ last'.args.touched = {}]_vars

AlignmentKeptARoot ==
    /\ last.op = "update_server_roots"
    /\ last.result = "ok"
    /\ last.changed
    /\ \E r \in db.rb : /\ r.local_folder = last.target
                        /\ r.remote_root \in last.args.remotes
                        /\ r.remote_root \notin last.args.touched

RoundTripPaths == {"local", "registered"}

\* The contexts bind_root(f, info, repo) can leave when it binds a new
\* root on the given path, each with the uids the server advertised
BindRootRuns(c, f, info, repo, path) ==
    IF path = "local"
    THEN {[r |-> bind_root(c, f, info, repo, "found", TRUE, FALSE, NoAlign,
                           "local_child"),
           remotes |-> {}]}
    ELSE {[r |-> bind_root(c, f, info, repo, "found", TRUE, TRUE, al,
                           "local_child"),
           remotes |-> DOMAIN al.remote_roots_by_id] :
          al \in {a \in UNION {Aligns(c.sess, b, repo) :
                               b \in get_server_binding(c.sess, f)} :
                     /\ DOMAIN a.remote_roots_by_id
                          = {x.remote_root :
                                 x \in UNION {tracked_roots(c.sess, b, repo) :
                                        b \in get_server_binding(c.sess, f)}}
                            \cup {info.uid}
                     /\ a.remote_roots_by_id[info.uid] = info}}

\* The results unbind_root(root) can have after such a bind_root
UnbindRootRuns(c, f, root, repo, path, remotes, uid) ==
    IF path = "local"
    THEN {unbind_root(c, root, "missing", NoAlign)}
    ELSE {unbind_root(c, root, "installed", al) :
          al \in {a \in UNION {Aligns(c.sess, b, repo) :
                               b \in get_server_binding(c.sess, f)} :
                     DOMAIN a.remote_roots_by_id = remotes \ {uid}}}

\* C11: bind_root(local_folder, remote_root, repository) of a root that
\* was not bound, followed by unbind_root of that root, leaves the
\* committed store as it was before the bind_root, on the local path and
\* on the registered path.
BindRootRoundTrip ==
    \A f \in FolderArgs, info \in RemoteInfos, repo \in Repos,
       path \in RoundTripPaths :
        get_root_binding(sess, root_of(f, info)) = {} =>
            \A b1 \in BindRootRuns(Ctx, f, info, repo, path) :
                /\ b1.r.result = "ok"
                /\ get_root_binding(b1.r.c.sess, root_of(f, info)) # {}
                => \A r2 \in UnbindRootRuns(b1.r.c, f, root_of(f, info),
                                            repo, path, b1.remotes,
                                            info.uid) :
                       r2.result = "ok" /\ r2.c.db = db

\* ------------------------------------------------------------------------
\* list_pending and next_pending
\* ------------------------------------------------------------------------
\* The pair states that wait for synchronization, of one folder or of all
PendingOf(local_folder) ==
    {x \in sess.st : /\ x.pair_state # "synchronized"
                     /\ local_folder # NoFolder
                        => x.local_folder = local_folder}

\* x comes before y in the order of (path, then remote_path)
before_in_order(x, y) ==
    order_lt(<<x.path, x.remote_path>>, <<y.path, y.remote_path>>)

Min(a, b) == IF a < b THEN a ELSE b

NoCooldown(w) == w = NoNumber \/ w[1] <= 0

\* C12: list_pending(limit, local_folder) returns exactly min(limit, n) of
\* the n pair states that are not synchronized (of the given local_folder
\* when there is one), each once, in ascending order of (path, then
\* remote_path), and never leaves out a pending pair state that comes
\* before one it returns.
ListPendingReturnsFirstPending ==
    (query.op = "list_pending" /\ NoCooldown(query.args.ignore_in_error)) =>
        LET res == query.result
            P == PendingOf(query.args.local_folder)
            limit == query.args.limit
        IN /\ Len(res) = IF limit = NoNumber THEN Cardinality(P)
                         ELSE Min(limit[1], Cardinality(P))
           /\ \A i \in 1..Len(res) : res[i] \in P
           /\ \A i, j \in 1..Len(res) :
                  i < j => res[i] # res[j] /\ ~before_in_order(res[j], res[i])
           /\ \A x \in P :
                  (\A i \in 1..Len(res) : res[i] # x)
                  => \A i \in 1..Len(res) : ~before_in_order(x, res[i])

\* A limited call for one folder left a pending pair state out, while
\* pair states of another folder and synchronized ones were in the store
ListPendingCutShort ==
    /\ query.op = "list_pending"
    /\ query.args.ignore_in_error = NoNumber
    /\ query.args.local_folder = QueryFolder
    /\ query.args.limit # NoNumber
    /\ 0 < Len(query.result)
    /\ Len(query.result) < Cardinality(PendingOf(QueryFolder))
    /\ PendingOf(NoFolder) # PendingOf(QueryFolder)
    /\ \E x \in sess.st : /\ x.local_folder = QueryFolder
                          /\ x.pair_state = "synchronized"

\* The pair states of the store that are folders above d in its root: by
\* local path when both have one, else along the remote parent chain
is_path_prefix(a, d) ==
    /\ a.path # NoText /\ d.path # NoText /\ a.path # d.path
    /\ \/ a.path = RootPath
       \/ /\ Len(a.path) < Len(d.path)
          /\ SubSeq(d.path, 1, Len(a.path) + 1) = Append(a.path, "/")

RECURSIVE remote_ancestors(_, _)
remote_ancestors(d, n) ==
    IF n = 0 \/ d.remote_parent_ref = None THEN {}
    ELSE LET parents == {x \in sess.st :
                            /\ x.local_root = d.local_root
                            /\ x.remote_ref = d.remote_parent_ref}
         IN parents \cup UNION {remote_ancestors(x, n - 1) : x \in parents}

is_ancestor(a, d) ==
    /\ a.folderish
    /\ a.local_root = d.local_root
    /\ IF a.path # NoText /\ d.path # NoText
       THEN is_path_prefix(a, d)
       ELSE a \in remote_ancestors(d, Cardinality(sess.st))

\* C13: in every list_pending result ancestors precede descendants: when
\* the pending folder a is above the pending pair state d in the same
\* root (by local path, or by the remote parent chain when one of them
\* has no local path yet), a returned d has a before it in the list.
AncestorsPrecedeDescendants ==
    (query.op = "list_pending" /\ NoCooldown(query.args.ignore_in_error)) =>
        LET res == query.result
            P == PendingOf(query.args.local_folder)
        IN \A a, d \in P :
               is_ancestor(a, d) =>
                   \A j \in 1..Len(res) :
                       res[j] = d => \E i \in 1..(j - 1) : res[i] = a

\* C14: list_pending called at time now with ignore_in_error = w > 0
\* returns, up to its limit, the pending pair states whose
\* last_sync_error_date is null or earlier than now - w, and only those;
\* with w null or w <= 0 no pair state is left out for its
\* last_sync_error_date.
ErrorCooldown ==
    query.op = "list_pending" =>
        LET res == query.result
            w == query.args.ignore_in_error
            E == IF w # NoNumber /\ w[1] > 0
                 THEN {x \in PendingOf(query.args.local_folder) :
                          \/ x.last_sync_error_date = NoNumber
                          \/ x.last_sync_error_date[1] < query.args.now - w[1]}
                 ELSE PendingOf(query.args.local_folder)
            returned == {res[i] : i \in 1..Len(res)}
        IN /\ returned \subseteq E
           /\ Cardinality(returned) = Len(res)
           /\ IF query.args.limit = NoNumber THEN returned = E
              ELSE Len(res) = Min(query.args.limit[1], Cardinality(E))

\* A call without limit and with ignore_in_error > 0 returned a pair
\* state that failed earlier than now - ignore_in_error and left out one
\* that failed exactly ignore_in_error seconds ago
CooldownLeftOneOut ==
    /\ query.op = "list_pending"
    /\ query.args.limit = NoNumber
    /\ query.args.ignore_in_error # NoNumber
    /\ query.args.ignore_in_error[1] > 0
    /\ \E i \in 1..Len(query.result) :
           /\ query.result[i].last_sync_error_date # NoNumber
           /\ query.result[i].last_sync_error_date[1]
                < query.args.now - query.args.ignore_in_error[1]
    /\ \E x \in PendingOf(query.args.local_folder) :
           /\ x.last_sync_error_date # NoNumber
           /\ x.last_sync_error_date[1]
                = query.args.now - query.args.ignore_in_error[1]
           /\ \A i \in 1..Len(query.result) : query.result[i] # x

\* C15: next_pending(local_folder) returns no entry exactly when the
\* folder has no pair state that is not synchronized; otherwise it
\* returns a pair state list_pending with the same local_folder can return
\* first, which is a least pending pair state of the folder in the order
\* of (path, remote_path).
NextPendingIsFirstPending ==
    query.op = "next_pending" =>
        LET P == PendingOf(query.args.local_folder)
            lists == list_pending(sess, NoNumber, query.args.local_folder,
                                  NoNumber, Now)
        IN /\ query.result = <<>> <=> P = {}
           /\ query.result # <<>> =>
                  /\ query.result[1] \in P
                  /\ \A x \in P : ~before_in_order(x, query.result[1])
                  /\ \E l \in lists : l[1] = query.result[1]

\* next_pending for one folder returned a pair state while other pair
\* states of the folder, and of another folder, were pending
NextPendingChose ==
    /\ query.op = "next_pending"
    /\ query.args.local_folder = OtherFolder
    /\ query.result # <<>>
    /\ \E x \in PendingOf(NoFolder) :
           /\ x.local_folder # OtherFolder
           /\ ~before_in_order(query.result[1], x)

\* ------------------------------------------------------------------------
\* Roots and the paths they contain
\* ------------------------------------------------------------------------
\* The root binding rb contains the absolute path: the path is its
\* local_root or starts with local_root and the separator
contains_path(rb, path) ==
    rb.local_root = path \/ starts_with_root(path, rb.local_root)

\* The context left by bind_server(folder) followed by bind_root(folder,
\* remote_info) on the local path, both answered favourably
bound_with_root(c, folder, remote_info) ==
    bind_root(bind_server(c, folder, <<"h">>, "alice", "p1", "t1", TRUE).c,
              folder, remote_info, "default", "found", TRUE, FALSE, NoAlign,
              "local_child").c

\* Every stored root and a path inside it resolve to one root
resolves_to_one_root(s) ==
    \A path \in UNION {{rb.local_root, Append(rb.local_root, "x")} :
                       rb \in s.rb} :
        LET found == _binding_path(s, path)
        IN /\ found.result # "Ambiguous"
           /\ found.result = "ok"
              => \A rb \in s.rb : contains_path(rb, path)
                                  => rb = found.binding

\* C16: after any sequence of control operations every absolute path is
\* contained in at most one RootBinding, so _binding_path never fails
\* with Ambiguous and never returns one root while another stored root
\* contains the path: this holds in the store as it is, and still holds
\* after a bind_server and a bind_root for any local folder, the folder
\* of a stored root included.
PathsResolveToOneRoot ==
    /\ resolves_to_one_root(sess)
    /\ \A rb \in sess.rb, remote_info \in RemoteInfos :
           resolves_to_one_root(
               bound_with_root(Ctx, rb.local_root, remote_info).sess)

\* ------------------------------------------------------------------------
\* Roots and their server bindings
\* ------------------------------------------------------------------------
\* The server bindings of the store s the root r refers to, with r strictly
\* below their folder
server_bindings_above(s, r) ==
    {b \in s.sb : /\ b.local_folder = r.local_folder
                  /\ starts_with_root(r.local_root, b.local_folder)}

\* C17: after every control operation each stored RootBinding has a
\* ServerBinding in the store, and its local_root is a strict path
\* descendant of the local_folder of that ServerBinding, in the committed
\* store and in the view of the session, for roots bound by bind_root and
\* by the alignment alike.
RootsHaveServerBinding ==
    /\ \A r \in db.rb : server_bindings_above(db, r) # {}
    /\ \A r \in sess.rb : server_bindings_above(sess, r) # {}

\* An alignment just bound a root next to one that was bound before
AlignmentBoundSecondRoot ==
    /\ last.op = "update_server_roots"
    /\ last.result = "ok"
    /\ last.changed
    /\ \E b \in OwnBindings(db) :
           Cardinality({r \in db.rb : server_bindings_above(db, r) = {b}}) = 2

\* ------------------------------------------------------------------------
\* unbind_server
\* ------------------------------------------------------------------------
\* The rows of the store s that belong to the server binding of a folder:
\* the binding, its roots and the pair states under those roots
rows_of_folder(s, local_folder) ==
    LET roots == {r \in s.rb : r.local_folder = local_folder}
    IN [sb |-> {b \in s.sb : b.local_folder = local_folder},
        rb |-> roots,
        st |-> {x \in s.st : \E r \in roots : x.local_root = r.local_root}]

\* C18: unbind_server on a bound folder ends with the ServerBinding, its
\* roots and the pair states under them gone from the committed store,
\* also when the revocation of the token fails with a network error or
\* with Unauthorized (only an error of another kind makes the call fail);
\* unbind_server on a folder that is not bound fails and changes nothing.
UnbindServerRemovesEverything ==
    [][last'.op = "unbind_server" =>
         IF last'.existed
         THEN /\ last'.result = IF last'.args.unexpected THEN "RevokeError"
                                ELSE "ok"
              /\ last'.result = "ok" =>
                     /\ rows_of_folder(db', last'.target) = EmptyStore
                     /\ db'.st \cap rows_of_folder(sess, last'.target).st = {}
                     /\ db'.rb \cap rows_of_folder(sess, last'.target).rb = {}
         ELSE /\ last'.result = "NotBound"
              /\ db' = db /\ sess' = sess]_vars

\* unbind_server removed a binding that had roots although the revocation
\* of its token failed
UnboundDespiteRevocationError ==
    /\ last.op = "unbind_server"
    /\ last.result = "ok"
    /\ last.existed
    /\ last.args.swallowed
    /\ last.args.had_roots

\* ------------------------------------------------------------------------
\* _pair_states_recursive and children_states
\* ------------------------------------------------------------------------
\* The pair states below a folder of a root, at any depth: those whose
\* local or remote parent is the folder or a folder below it
RECURSIVE descendants(_, _)
descendants(doc_pair, n) ==
    IF n = 0 \/ ~doc_pair.folderish THEN {}
    ELSE LET children == {x \in sess.st :
                             /\ x.local_root = doc_pair.local_root
                             /\ is_child_of(x, doc_pair)}
         IN children \cup UNION {descendants(x, n - 1) : x \in children}

\* C19: the state _pair_states_recursive reports for a folder is
\* synchronized if and only if every pair state below the folder, at any
\* depth and in any position among its siblings, is synchronized, and
\* children_modified otherwise.
FolderStateSummarizesDescendants ==
    (query.op = "_pair_states_recursive" /\ query.args.doc_pair.folderish) =>
        query.result[1].pair_state
          = IF \A x \in descendants(query.args.doc_pair,
                                    Cardinality(sess.st)) :
                   x.pair_state = "synchronized"
            THEN "synchronized"
            ELSE "children_modified"

\* The names children_states returns, in a list
entry_names(entries) == [i \in 1..Len(entries) |-> entries[i][1]]

\* C20: children_states(folder_path) lists each child once. For the
\* local_folder of a ServerBinding it returns one entry per RootBinding
\* of the binding; for a folder inside a root it returns one entry per
\* pair state whose parent_path is the folder, none for anything deeper
\* and none twice.
ChildrenListedOnce ==
    query.op = "children_states" =>
        LET names == entry_names(query.result)
            folder_path == normalized_path(query.args.folder_path)
            bound == get_server_binding(sess, folder_path)
            found == _binding_path(sess, folder_path)
            folder_states ==
                {x \in sess.st : /\ x.local_root = found.binding.local_root
                                 /\ x.path = found.path}
            direct == {x \in sess.st :
                          /\ x.local_root = found.binding.local_root
                          /\ x.parent_path = found.path}
        IN /\ \A i, j \in 1..Len(names) : names[i] = names[j] => i = j
           /\ IF bound # {}
              THEN {names[i] : i \in 1..Len(names)}
                     = {r.local_root[Len(r.local_root)] :
                        r \in {x \in sess.rb : \E b \in bound :
                                   x.local_folder = b.local_folder}}
              ELSE (found.result = "ok" /\ folder_states # {})
                   => {names[i] : i \in 1..Len(names)}
                        = {basename(x.path) : x \in direct}

\* ------------------------------------------------------------------------
\* C21: get_state returns a state of the right server and repository
\* ------------------------------------------------------------------------
\* The url with its trailing slash
with_slash(url) == IF url[Len(url)] = "/" THEN url ELSE Append(url, "/")

\* The pair states with the remote_ref whose root is of the repository and
\* whose folder is bound to the server
StatesUnder(server_url, remote_repo, remote_ref) ==
    {x \in sess.st :
        /\ x.remote_ref = remote_ref
        /\ \E rb \in sess.rb :
               /\ rb.local_root = x.local_root
               /\ rb.remote_repo = remote_repo
               /\ \E b \in sess.sb : /\ b.local_folder = rb.local_folder
                                     /\ b.server_url = server_url}

\* C21: get_state(server_url, repo, remote_ref) returns a pair state only
\* if it has the remote_ref, its root binding the repository and its server
\* binding the normalized url; it returns such a state whenever there is
\* one, whatever other roots hold the remote_ref under another server or
\* repository, and None when there is none; the url gives the same answers
\* with and without its trailing slash.
GetStateFindsStateUnderServer ==
    query.op = "get_state" /\ query.args.server_url # <<>>
    => LET a == query.args
           under == StatesUnder(with_slash(a.server_url), a.remote_repo,
                                a.remote_ref)
       IN /\ query.result.result = "ok"
          /\ under = {} => query.result.state = <<>>
          /\ under # {} => query.result.state \in {<<x>> : x \in under}
          /\ get_state(sess, a.server_url, a.remote_repo, a.remote_ref)
               = get_state(sess, with_slash(a.server_url), a.remote_repo,
                           a.remote_ref)

\* get_state was given the url without its slash and found the state of
\* the root while the root of the other folder, bound to another server,
\* holds the same remote_ref
GetStateChoseAmongServers ==
    /\ query.op = "get_state"
    /\ query.args.server_url = <<"h">>
    /\ query.result.state # <<>>
    /\ query.result.state[1].local_root = QueryRoot
    /\ \E x \in sess.st : /\ x.remote_ref = query.args.remote_ref
                          /\ x.local_root # QueryRoot
    /\ \E b \in sess.sb : b.server_url = <<"g", "/">>

\* ------------------------------------------------------------------------
\* C22: get_state_for_local_path finds the state at the path or fails
\* ------------------------------------------------------------------------
\* The roots that contain the absolute path
RootsContaining(local_path) ==
    {rb \in sess.rb : contains_path(rb, normalized_path(local_path))}

\* The path of local_path inside the root rb
PathInside(rb, local_path) ==
    IF normalized_path(local_path) = rb.local_root THEN RootPath
    ELSE relative_path(normalized_path(local_path), Len(rb.local_root))

\* C22: get_state_for_local_path(abs_path) returns the pair state stored
\* at the root and the path inside it that abs_path resolves to; it fails
\* with a not found error, returning no state (of this or another root),
\* when no root binding contains abs_path and when the containing root has
\* no pair state at that path.
LocalPathFindsStateOrFails ==
    query.op = "get_state_for_local_path"
    => LET local_path == query.args.local_path
           roots == RootsContaining(local_path)
           at_path == {x \in sess.st :
                          \E rb \in roots :
                              /\ x.local_root = rb.local_root
                              /\ x.path = PathInside(rb, local_path)}
       IN /\ query.result.result = "ok"
             => /\ query.result.state # <<>>
                /\ query.result.state[1] \in at_path
          /\ roots = {}
             => query.result = Raised("NotFound")
          /\ roots # {} /\ at_path = {}
             => query.result = Raised("NoResultFound")
          /\ Cardinality(roots) = 1 /\ Cardinality(at_path) = 1
             => query.result.result = "ok"

\* A path inside the root with no pair state was asked: the other root has
\* a pair state at the same path inside it
LocalPathMissedInRoot ==
    /\ query.op = "get_state_for_local_path"
    /\ query.args.local_path = <<"d", "a", "z">>
    /\ query.result = Raised("NoResultFound")

\* ------------------------------------------------------------------------
\* C23: the failures of bind_root before anything is bound
\* ------------------------------------------------------------------------
\* C23: bind_root fails, creating no root binding and no pair state and
\* not asking the server to register the root, when its folder has no
\* server binding, when the remote root does not exist or is no folder
\* (NoSuchRemoteRoot) and when the caller may not write to it
\* (NotWritable); a root that is missing and not writable is reported
\* missing: existence is checked before the write permission.
BindRootFailsBeforeBinding ==
    last.op = "bind_root"
    => LET a == last.args
           fails(error) == /\ last.result = error
                           /\ ~last.changed
                           /\ ~a.asked
       IN /\ ~a.bound => fails("NotBound")
          /\ a.bound /\ a.remote \in {"NotFound", "no_folder"}
             => fails("NoSuchRemoteRoot")
          /\ a.bound /\ a.remote = "folder" /\ ~a.writable
             => fails("NotWritable")
          /\ last.result \in {"NotBound", "NoSuchRemoteRoot", "NotWritable"}
             => ~last.changed /\ ~a.asked

\* bind_root of a bound folder was refused a remote root that is neither
\* there nor writable
BindRootRefusedMissingRoot ==
    /\ last.op = "bind_root"
    /\ last.args.bound
    /\ last.args.remote = "NotFound"
    /\ ~last.args.writable
    /\ last.result = "NoSuchRemoteRoot"

\* ------------------------------------------------------------------------
\* C24: the local bind helper on a root that is already bound
\* ------------------------------------------------------------------------
\* A repository no root of the model is bound to
OtherRepo == "other"

\* C24: the local bind helper called for a local_root that has a root
\* binding adds and changes nothing when the binding has the same
\* repository and remote uid (no second root binding, no new seed state,
\* the pair states kept), and fails with AlreadyBound, the binding
\* unchanged, when the repository or the remote uid differs. (When the
\* folder of the root is gone and cannot be made again the call fails
\* before it looks at the binding.)
LocalBindOfBoundRoot ==
    \A b \in sess.sb, info \in RemoteInfos,
       repository \in Repos \cup {OtherRepo}, env \in HelperEnvs :
        \A rb \in get_root_binding(sess, joined_root(b, info)) :
            LET r == _local_bind_root(Ctx, b, info, repository, env)
                same == /\ rb.remote_repo = repository
                        /\ rb.remote_root = info.uid
            IN /\ r.c = Ctx
               /\ r.result = IF env = "makedirs_raises" THEN "OSError"
                             ELSE IF same THEN "ok"
                             ELSE "AlreadyBound"

\* bind_root called the local bind helper for a root already bound to the
\* same remote root: the call ended well and changed nothing
LocalBindMetSameRoot ==
    /\ last.op = "bind_root"
    /\ last.existed
    /\ last.args.helpers = {"register_as_root", "_local_bind_root"}
    /\ last.result = "ok"
    /\ ~last.changed
    /\ \E rb \in sess.rb : /\ rb.local_root = last.target
                           /\ \E x \in sess.st : x.local_root = rb.local_root

\* ------------------------------------------------------------------------
\* C25: url normalization
\* ------------------------------------------------------------------------
ends_with_slash(url) == url # <<>> /\ url[Len(url)] = "/"

\* C25: the normalized form of a non-empty url ends with "/" and
\* normalizing it again returns it unchanged; a null or empty url is
\* rejected with InvalidArgument, and a bind_server call given one stores
\* nothing; so the server_url of every stored server binding ends with
\* "/".
UrlsAreNormalized ==
    /\ \A url \in UrlArgs \cup QueryUrls :
           IF url = <<>> THEN _normalize_url(url) = ValueError
           ELSE /\ ends_with_slash(_normalize_url(url))
                /\ _normalize_url(_normalize_url(url)) = _normalize_url(url)
    /\ last.op = "bind_server" /\ ~last.args.valid_url
       => last.result = "InvalidArgument" /\ ~last.changed
    /\ \A b \in db.sb \cup sess.sb : ends_with_slash(b.server_url)

\* bind_server was given an empty url after a binding of the folder was
\* stored
EmptyUrlRejected ==
    /\ last.op = "bind_server"
    /\ ~last.args.valid_url
    /\ last.result = "InvalidArgument"
    /\ \E b \in db.sb : b.local_folder = last.target

\* ------------------------------------------------------------------------
\* C26: stop leaves a marker for the detected process only
\* ------------------------------------------------------------------------
\* C26: stop() creates the marker file stop_<pid> in the configuration
\* folder exactly when a running synchronization process with that pid is
\* detected; when none is detected it creates no file and changes no
\* state; it never creates a marker for another pid and never touches the
\* store.
StopMarksDetectedProcess ==
    [][query'.op = "stop"
       => LET pid == query'.args.pid
          IN /\ db' = db /\ sess' = sess
             /\ pid = NoNumber => config_folder' = config_folder
             /\ pid # NoNumber
                => /\ <<"stop_", pid[1]>> \in config_folder'
                   /\ config_folder' \ config_folder
                        = {<<"stop_", pid[1]>>}
                   /\ config_folder \subseteq config_folder']_vars

\* stop() found the process 7 and left its marker beside the file of the
\* store
StopLeftMarker ==
    /\ query.op = "stop"
    /\ query.args.pid = <<7>>
    /\ config_folder = {DbFile, <<"stop_", 7>>}

\* ------------------------------------------------------------------------
\* C27: concurrent binds of the same folder or root
\* ------------------------------------------------------------------------
\* Both threads ran the call op to its end
BothDone(op) ==
    \A t \in Threads : threads[t].call.op = op /\ threads[t].pc = "done"

\* The committed rows a call that added rows stands for: the server binding
\* of the folder with its user, the root binding of its root with its
\* remote root
CommittedFor(thread) ==
    IF thread.call.op = "bind_server"
    THEN {b \in db.sb : /\ b.local_folder = ThreadFolder
                        /\ b.remote_user = thread.call.user}
    ELSE {r \in db.rb :
             /\ r.local_root = joined_root(ThreadBinding,
                                           thread.call.remote_info)
             /\ r.remote_root = thread.call.remote_info.uid}

\* C27: when two threads, each with its own session, run bind_server for
\* the same unbound folder, in every interleaving the committed store ends
\* with exactly one server binding of that folder, and each call either
\* commits or ends with an error; likewise two local binds of the same
\* local_root end with exactly one root binding of it.
ConcurrentBindsKeepOneBinding ==
    /\ \A b1, b2 \in db.sb : b1.local_folder = b2.local_folder => b1 = b2
    /\ \A r1, r2 \in db.rb : r1.local_root = r2.local_root => r1 = r2
    /\ \A t \in Threads :
           threads[t].pc = "done"
           => /\ threads[t].result
                   \in {"ok", "AlreadyBound", "IntegrityError"}
              /\ threads[t].result = "ok" => CommittedFor(threads[t]) # {}
    /\ BothDone("bind_server")
       => Cardinality(find_server_binding(db, ThreadFolder)) = 1
    /\ BothDone("_local_bind_root")
       => \A t \in Threads :
              Cardinality(get_root_binding(
                              db, joined_root(ThreadBinding,
                                              threads[t].call.remote_info)))
                = 1

\* Both threads found the folder unbound and added a binding of it: one
\* committed, the store refused the other
BindServerRaceLost ==
    /\ BothDone("bind_server")
    /\ threads["main"].result = "IntegrityError"
    /\ threads["worker"].result = "ok"
    /\ threads["main"].inserts.sb # {}

\* ------------------------------------------------------------------------
\* C28: children_states terminates
\* ------------------------------------------------------------------------
\* C28: children_states terminates on every store whose pair states all
\* have a path or a remote_ref: the recursive collection of descendants
\* visits each pair state a bounded number of times and never recurses
\* forever, also when a move on one side makes two folders select each
\* other as children, one through parent_path and the other through
\* remote_parent_ref.
DescendantCollectionTerminates ==
    (\A x \in sess.st : x.path # NoText \/ x.remote_ref # None)
    => \A rb \in sess.rb :
           \A doc_pair \in {x \in sess.st : x.local_root = rb.local_root} :
               ~recurses_forever(sess, rb.local_root, doc_pair)

\* ------------------------------------------------------------------------
\* C29: remote clients carry the stored credentials
\* ------------------------------------------------------------------------
\* C29: every remote client get_remote_client returns for a server binding
\* authenticates with the token or password stored in that binding at the
\* time: once bind_server has updated the token or password in place, a
\* later get_remote_client for the same server, user, base folder and
\* repository does not return a cached client built with the previous
\* credentials.
ClientsCarryStoredCredentials ==
    query.op = "get_remote_client"
    => /\ query.result.token = query.args.server_binding.remote_token
       /\ query.result.password = query.args.server_binding.remote_password

\* ------------------------------------------------------------------------
\* C30: a new root is committed after its scans
\* ------------------------------------------------------------------------
\* The seed states of the root binding rb in the store s
SeedsOf(s, rb) ==
    {x \in s.st : x.local_root = rb.local_root /\ x.path = RootPath}

\* C30: when the local bind helper creates a new root it seeds exactly one
\* pair state for it, with local_state synchronized and remote_state
\* synchronized for a folderish remote root and modified otherwise, runs
\* the local scan, then the remote scan, and commits only after both: the
\* new root binding and its seed state are never in the committed store
\* before the remote scan has returned. So a root binding enters the
\* committed store only in the step of the operation whose helper created
\* it, scanned it and committed, together with its one seed state.
RootCommittedAfterScans ==
    [][\A rb \in db'.rb \ db.rb :
           /\ last'.op \in {"bind_root", "unbind_root",
                            "update_server_roots"}
           /\ rb \notin sess.rb
           /\ \E seed \in SeedsOf(db', rb) :
                  /\ SeedsOf(db', rb) = {seed}
                  /\ seed.local_state = "synchronized"
                  /\ seed.remote_state = IF seed.folderish
                                         THEN "synchronized"
                                         ELSE "modified"]_vars

\* ------------------------------------------------------------------------
\* C31: an alignment unbinds before it binds
\* ------------------------------------------------------------------------
\* C31: in every root alignment all local unbinds of the roots whose uid
\* the server no longer advertises are performed and committed before the
\* first local bind of an advertised root that is not tracked starts: no
\* bind of an added root precedes an unbind of a removed root, and when a
\* bind is called every root to remove is gone from the session and from
\* the committed store.
AlignmentUnbindsBeforeBinds ==
    last.op = "update_server_roots"
    => LET helpers == last.args.helpers
           binds == {i \in 1..Len(helpers) :
                        helpers[i] = "_local_bind_root"}
       IN /\ \A i, j \in 1..Len(helpers) :
                 /\ helpers[i] = "_local_bind_root"
                 /\ helpers[j] = "_local_unbind_root"
                 => j < i
          /\ binds # {} => last.args.left_bound = {}

\* An alignment unbound a root and then bound another
AlignmentUnboundThenBound ==
    /\ last.op = "update_server_roots"
    /\ last.result = "ok"
    /\ \E i, j \in 1..Len(last.args.helpers) :
           /\ last.args.helpers[i] = "_local_unbind_root"
           /\ last.args.helpers[j] = "_local_bind_root"

====
